---- MODULE Spec2Model ----
(***************************************************************************)
(* Model of the 3D-model optimisation core: ModelCache (LRU content cache),*)
(* LODManager (quality selection, transitions, optimisation) and the       *)
(* debounce timer of the optimisation pass.                                *)
(*                                                                         *)
(* JavaScript runs one callback at a time.  An async function runs until   *)
(* its next `await`; what runs between two awaits is one action here.      *)
(***************************************************************************)
EXTENDS Integers, Sequences, FiniteSets, Bags, TLC

VARIABLES
    modelCache,   \* the ModelCache object: cache, usage, accessOrder, currentSize, counters, config
    calls,        \* bag of the asynchronous calls that are suspended at an await
    recency,      \* history: stored keys, least recently accessed (put or hit) first
    insertOrder,  \* history: stored keys in the order they were (last) inserted
    evictedFrom,  \* history: insertOrder as it was when the last handler evicted for space
    now,          \* Date.now()
    decision,     \* one application of LODManager.determineQuality: its arguments and result
    lodManager,   \* the LODManager object: activeModels, stats, isOptimizing, optimizationTimeout, config
    lodCalls,     \* history: number of calls made to the LODManager from outside
    lastCall,     \* history: the call that returned in the last step (NoCall if none did)
    lastEval,     \* history: per asset, the camera data of its last updateModelLOD evaluation
    ticks,        \* history: number of times the clock has advanced
    debounce,     \* history: the scheduleOptimization calls since the timer last fired
    severity,     \* applications of PerformanceMonitor.calculateFPSSeverity: arguments and results
    runs,         \* history: number of direct optimizeForPerformance calls
    pendingTransitions, \* history: the changeModelQuality loads in flight, oldest request first
    registry,     \* the callbacks of ModelCache, LODManager and PerformanceMonitor
    subscriptions, \* history: number of on / onPerformanceIssue calls
    notification, \* the last run of a notifyCallbacks: who was invoked, how it ended
    monitor,      \* PerformanceMonitor.currentMetrics, the objects it refers to, a caller's copy
    system,       \* ModelOptimizationSystem.registeredModels; history: the ids removed, the last call
    display,      \* history: the calls made with a display operation that throws, and how they ended
    lowering,     \* history: the qualities when the last reduce_model_quality was applied
    issues,       \* PerformanceMonitor.isMonitoring and consecutiveIssues; history: the checks made
    interrupted   \* history: the keys cleared, deleted or unloaded while their load was pending

cacheVars == <<modelCache, recency, insertOrder, evictedFrom>>
lodVars == <<lodManager, lodCalls, lastCall, lastEval, ticks, debounce>>
notifyVars == <<registry, subscriptions, notification>>
laterVars == <<display, lowering, issues, interrupted>>
pureVars == <<severity, runs, notifyVars, monitor, system, laterVars>>
otherVars == <<pureVars, pendingTransitions>>
vars == <<modelCache, calls, recency, insertOrder, evictedFrom, now, decision,
          lodManager, lodCalls, lastCall, lastEval, ticks, debounce, otherVars>>

-----------------------------------------------------------------------------
(* Bounds of the model *)

\* number of direct optimizeForPerformance calls
MaxRuns == 2
\* number of ModelCache.get calls the callers issue
MaxRequests == 4
\* number of asynchronous calls suspended at the same time
MaxCalls == 2
\* number of calls made to the LODManager from outside
MaxLodCalls == 4
\* number of calls made to the LODManager in the runs with a clock
MaxTimerCalls == 3
\* number of times the clock advances
MaxTicks == 4

(* Configuration of the cache (ModelCache.config, set by the constructor's *)
(* argument), in units of one small model                                  *)
CfgMaxSize == 4
CfgMaxEntries == 2

CacheKeys == {"A", "B", "C"}
\* a loaded model is represented by its estimated size (estimateModelSize):
\* a small one, one of half the capacity, one above half the capacity
ModelSizes == {1, 2, 3}

-----------------------------------------------------------------------------
(* Helpers on sequences and maps *)

Range(s) == {s[i] : i \in DOMAIN s}

RECURSIVE Without(_, _)
Without(s, x) ==
    IF s = <<>> THEN <<>>
    ELSE IF Head(s) = x THEN Without(Tail(s), x)
    ELSE <<Head(s)>> \o Without(Tail(s), x)

RECURSIVE Restrict(_, _)
Restrict(s, S) ==
    IF s = <<>> THEN <<>>
    ELSE IF Head(s) \in S THEN <<Head(s)>> \o Restrict(Tail(s), S)
    ELSE Restrict(Tail(s), S)

\* Array.prototype.indexOf + splice(index, 1): removes the first occurrence only
RECURSIVE SpliceFirst(_, _)
SpliceFirst(s, x) ==
    IF s = <<>> THEN <<>>
    ELSE IF Head(s) = x THEN Tail(s)
    ELSE <<Head(s)>> \o SpliceFirst(Tail(s), x)

MapDelete(f, k) == [x \in DOMAIN f \ {k} |-> f[x]]
MapSet(f, k, v) == [x \in DOMAIN f \cup {k} |-> IF x = k THEN v ELSE f[x]]
EmptyMap == [x \in {} |-> 0]

RECURSIVE SumSizes(_, _)
SumSizes(f, S) ==
    IF S = {} THEN 0
    ELSE LET k == CHOOSE x \in S : TRUE
         IN f[k].size + SumSizes(f, S \ {k})

-----------------------------------------------------------------------------
(* ModelCache: the synchronous pieces, as functions of the cache object c.  *)
(* c.emitted collects the events the running handler has emitted.          *)

Emit(c, ev) == [c EXCEPT !.emitted = Append(@, ev)]

\* ModelCache.updateAccessOrder with the bug "a key already listed is not moved"
updateAccessOrderNoMove(c, key) ==
    IF key \in Range(c.accessOrder) THEN c
    ELSE [c EXCEPT !.accessOrder = Append(@, key)]

\* an updateAccessOrder that pushes the key without removing it first
updateAccessOrderPush(c, key) ==
    [c EXCEPT !.accessOrder = Append(@, key)]

updateAccessOrder(c, key) ==
    [c EXCEPT !.accessOrder = Append(SpliceFirst(@, key), key)]

updateAccess(c, key, time) ==
    LET c1 == IF key \in DOMAIN c.usage
              THEN LET e == [c.usage[key] EXCEPT !.lastAccess = time,
                                                  !.accessCount = @ + 1]
                   IN  \* cache and usage hold the same entry object
                       [c EXCEPT !.usage = MapSet(@, key, e),
                                 !.cache = IF key \in DOMAIN c.cache
                                           THEN MapSet(@, key, e) ELSE @]
              ELSE c
    IN updateAccessOrder(c1, key)

clear(c) ==
    [c EXCEPT !.cache = EmptyMap, !.usage = EmptyMap, !.usageKeys = <<>>,
              !.accessOrder = <<>>, !.currentSize = 0]

\* an evictLeastUsed that removes the entry and leaves its key in accessOrder
evictLeastUsedKeepOrder(c) ==
    IF c.accessOrder = <<>> THEN c
    ELSE LET keyToEvict == c.accessOrder[1] IN
         IF keyToEvict \in DOMAIN c.cache
         THEN [c EXCEPT !.cache = MapDelete(@, keyToEvict),
                        !.usage = MapDelete(@, keyToEvict),
                        !.usageKeys = Without(@, keyToEvict),
                        !.currentSize = @ - c.cache[keyToEvict].size]
         ELSE c

evictLeastUsed(c) ==
    IF c.accessOrder = <<>> THEN c
    ELSE LET keyToEvict == c.accessOrder[1] IN
         IF keyToEvict \in DOMAIN c.cache
         THEN LET entry == c.cache[keyToEvict]
                  c1 == Emit(c, [type |-> "eviction", key |-> keyToEvict,
                                 reason |-> "lru",
                                 stored |-> keyToEvict \in DOMAIN c.cache])
              IN [c1 EXCEPT !.cache = MapDelete(@, keyToEvict),
                            !.usage = MapDelete(@, keyToEvict),
                            !.usageKeys = Without(@, keyToEvict),
                            !.currentSize = @ - entry.size,
                            !.accessOrder = SpliceFirst(@, keyToEvict)]
         ELSE c

delete(c, key) ==
    IF key \notin DOMAIN c.cache THEN c
    ELSE LET entry == c.cache[key]
             c1 == [c EXCEPT !.cache = MapDelete(@, key),
                             !.usage = MapDelete(@, key),
                             !.usageKeys = Without(@, key),
                             !.currentSize = @ - entry.size,
                             !.accessOrder = SpliceFirst(@, key)]
         IN Emit(c1, [type |-> "eviction", key |-> key, reason |-> "manual",
                      stored |-> key \in DOMAIN c1.cache])

\* a loop condition of ensureSpace that lets the entry count reach maxEntries
NeedsSpaceLax(c, requiredSize) ==
    \/ c.currentSize + requiredSize > c.config.maxSize
    \/ Cardinality(DOMAIN c.cache) > c.config.maxEntries

RECURSIVE deleteEach(_, _)
deleteEach(c, keys) ==
    IF keys = <<>> THEN c ELSE deleteEach(delete(c, Head(keys)), Tail(keys))

\* the loop condition of ModelCache.ensureSpace
NeedsSpace(c, requiredSize) ==
    \/ c.currentSize + requiredSize > c.config.maxSize
    \/ Cardinality(DOMAIN c.cache) >= c.config.maxEntries

\* one evaluation of the while loop of ensureSpace, up to its await (or exit)
ensureSpaceIter(c, requiredSize) ==
    IF NeedsSpace(c, requiredSize)
    THEN IF c.accessOrder = <<>>
         THEN [c |-> clear(c), done |-> TRUE]
         ELSE [c |-> evictLeastUsed(c), done |-> FALSE]
    ELSE [c |-> c, done |-> TRUE]

\* a set that drops the model after `await this.ensureSpace(size)`
setInsertDropped(c, key, size, time) == c

\* ModelCache.set, the part after `await this.ensureSpace(size)`
setInsert(c, key, size, time) ==
    LET entry == [size |-> size, lastAccess |-> time, accessCount |-> 1]
    IN updateAccessOrder([c EXCEPT !.cache = MapSet(@, key, entry),
                                   !.usage = MapSet(@, key, entry),
                                   !.usageKeys = IF key \in Range(@) THEN @
                                                 ELSE Append(@, key),
                                   !.currentSize = @ + size], key)

\* maxAge of performMaintenance: 5 * 60 * 1000
MaxAge == 300000

\* a performMaintenance that removes old entries whatever their access count
performMaintenanceAnyCount(c, time) ==
    LET Old(key) == time - c.usage[key].lastAccess > MaxAge
        c1 == deleteEach(c, SelectSeq(c.usageKeys, Old))
    IN IF 10 * c1.currentSize > 8 * c1.config.maxSize THEN evictLeastUsed(c1) ELSE c1

\* ModelCache.performMaintenance at the given time; memoryThreshold is 0.8
performMaintenance(c, time) ==
    LET Old(key) == /\ time - c.usage[key].lastAccess > MaxAge
                    /\ c.usage[key].accessCount = 1
        c1 == deleteEach(c, SelectSeq(c.usageKeys, Old))
    IN IF 10 * c1.currentSize > 8 * c1.config.maxSize THEN evictLeastUsed(c1) ELSE c1

\* a catch block of get that only rethrows
getCatchSilent(c, key) ==
    c

\* the catch block of ModelCache.get before `throw error`
getCatch(c, key) ==
    Emit(c, [type |-> "error", key |-> key])

\* a size check against the whole capacity instead of half of it
TooLargeWhole(c, size) == size > c.config.maxSize

\* ModelCache.set: `size > this.config.maxSize * 0.5`
TooLarge(c, size) == 2 * size > c.config.maxSize

-----------------------------------------------------------------------------
(* History variables *)

Touch(s, key) == Append(Without(s, key), key)

\* the key of S whose most recent access is the oldest
Oldest(S) == Head(Restrict(recency, S))

LruEvictions(c) ==
    {c.emitted[i].key : i \in {j \in DOMAIN c.emitted :
        c.emitted[j].type = "eviction" /\ c.emitted[j].reason = "lru"}}

\* the history after a handler that touched no key and left the cache as c
Removed(c) ==
    /\ recency' = Restrict(recency, DOMAIN c.cache)
    /\ insertOrder' = Restrict(insertOrder, DOMAIN c.cache)
    /\ evictedFrom' = IF LruEvictions(c) # {} THEN insertOrder ELSE <<>>

\* the history after a handler that accessed key and removed nothing
Accessed(key, inserted) ==
    /\ recency' = Touch(recency, key)
    /\ insertOrder' = IF inserted THEN Touch(insertOrder, key) ELSE insertOrder
    /\ evictedFrom' = <<>>

-----------------------------------------------------------------------------
(* Suspended calls *)

\* calls is a bag of frames [pc, key, size, ctx]: a ModelCache.get call for key,
\* and in ctx what its caller does with the outcome
NoCtx == [op |-> "none"]
Suspended == BagToSet(calls)
CanSuspend == BagCardinality(calls) < MaxCalls
Enter(f) == calls (+) SetToBag({f})
Leave(f) == calls (-) SetToBag({f})
Move(f, g) == (calls (-) SetToBag({f})) (+) SetToBag({g})

\* the suspended calls this step has moved to a new position
MovedTo == {g \in Suspended' : CopiesIn(g, calls') > CopiesIn(g, calls)}

Begin == [modelCache EXCEPT !.emitted = <<>>]
\* ModelCache.set from its start to the first await that suspends it:
\* the size check and the first evaluation of ensureSpace's loop
setStart(c, size) ==
    IF TooLarge(c, size) THEN [c |-> c, pc |-> "setDone"]
    ELSE LET r == ensureSpaceIter(c, size)
         IN [c |-> r.c, pc |-> IF r.done THEN "insert" ELSE "ensureSpace"]

-----------------------------------------------------------------------------
(* LODManager: the decision rule *)

Qualities == {"low", "medium", "high"}

\* the value calculateDistance returns when a position is missing; it is
\* above every threshold
Infinity == 1000000

\* LODManager.determineQuality with strict comparisons
determineQualityStrict(distance, lodDistances) ==
    IF distance < lodDistances.near THEN "high"
    ELSE IF distance < lodDistances.medium THEN "medium"
    ELSE "low"

determineQuality(distance, lodDistances) ==
    IF distance <= lodDistances.near THEN "high"
    ELSE IF distance <= lodDistances.medium THEN "medium"
    ELSE "low"

\* setTimeout(..., 1000) of scheduleOptimization
DebounceDelay == 1000
\* maxIdleTime of applyPerformanceOptimizations
MaxIdleTime == 30000
\* config.targetFPS
TargetFPS == 30

\* distances and threshold triples the decision rule is applied to
MaxDistance == 6
MaxThreshold == 5
Distances == 0..MaxDistance \cup {Infinity}
\* config.distances of the LODManager constructor
DefaultDistances == [near |-> 3, medium |-> 8, far |-> 15]
LodDistances ==
    {[near |-> n, medium |-> m, far |-> f] :
        n \in 1..MaxThreshold, m \in 1..MaxThreshold, f \in 1..MaxThreshold}
ValidLodDistances ==
    {t \in LodDistances : t.near < t.medium /\ t.medium < t.far} \cup {DefaultDistances}

NoDecision == [distance |-> 0, lodDistances |-> DefaultDistances, quality |-> "none"]

-----------------------------------------------------------------------------
(* PerformanceMonitor: severity of a low frame rate *)

Severities == <<"low", "medium", "high", "critical">>
SeverityRank(s) == CHOOSE i \in DOMAIN Severities : Severities[i] = s

\* a calculateFPSSeverity whose two upper tiers are exchanged
calculateFPSSeveritySwapped(fps, targetFPS) ==
    IF 10 * fps < 5 * targetFPS THEN "high"
    ELSE IF 10 * fps < 7 * targetFPS THEN "critical"
    ELSE IF 10 * fps < 8 * targetFPS THEN "medium"
    ELSE "low"

\* ratio = fps / targetFPS compared with 0.5, 0.7 and 0.8; fps is the rounded
\* average of calculateAverageFPS (an integer, or Infinity) and the comparisons
\* are made here on integers
calculateFPSSeverity(fps, targetFPS) ==
    IF 10 * fps < 5 * targetFPS THEN "critical"
    ELSE IF 10 * fps < 7 * targetFPS THEN "high"
    ELSE IF 10 * fps < 8 * targetFPS THEN "medium"
    ELSE "low"

\* the averaged frame rates and the targets the severity is computed for
MaxFps == 31
FpsValues == 0..MaxFps \cup {Infinity}
SeverityTargets == {TargetFPS, 20}

NoSeverity == [target |-> TargetFPS, fps |-> <<0, 0>>, result |-> <<"none", "none">>]
SeverityArguments ==
    {[target |-> target, fps |-> <<f1, f2>>, result |-> <<"none", "none">>] :
        target \in SeverityTargets, f1 \in FpsValues, f2 \in FpsValues}

-----------------------------------------------------------------------------
(* The callback registries of ModelCache, LODManager and PerformanceMonitor *)

\* the keys of ModelCache.callbacks and of LODManager.callbacks
CacheEvents == {"eviction", "load", "error"}
LodEvents == {"qualityChange", "modelLoad", "optimizationStart", "optimizationEnd"}
\* the functions the subscribers register, and those that throw when called
Handlers == {"h1", "h2", "h3"}
ThrowingHandlers == {"h2"}

\* a Set of functions: unique members in insertion order
SetAdd(s, x) == IF x \in Range(s) THEN s ELSE Append(s, x)
NoNotification == [source |-> "none", event |-> "none", invoked |-> <<>>,
                   logged |-> <<>>, completed |-> TRUE]
Notified(source, event, run) ==
    [source |-> source, event |-> event, invoked |-> run.invoked, logged |-> run.logged,
     completed |-> run.completed]

\* a forEach over the callbacks without try/catch: the first exception ends it
\* and reaches the code that emitted the event
RECURSIVE forEachUnprotected(_, _)
forEachUnprotected(callbacks, run) ==
    IF callbacks = <<>> THEN run
    ELSE LET callback == Head(callbacks)
             run1 == [run EXCEPT !.invoked = Append(@, callback)]
         IN IF callback \in ThrowingHandlers THEN [run1 EXCEPT !.completed = FALSE]
            ELSE forEachUnprotected(Tail(callbacks), run1)

\* callbacks.forEach(callback => { try { callback(data) } catch { console.error } })
RECURSIVE forEachCallback(_, _)
forEachCallback(callbacks, run) ==
    IF callbacks = <<>> THEN run
    ELSE LET callback == Head(callbacks)
             run1 == [run EXCEPT !.invoked = Append(@, callback)]
         IN forEachCallback(Tail(callbacks),
                            IF callback \in ThrowingHandlers
                            THEN [run1 EXCEPT !.logged = Append(@, callback)]
                            ELSE run1)

NewRun == [invoked |-> <<>>, logged |-> <<>>, completed |-> TRUE]

\* on(event, callback) and off(event, callback) of ModelCache and LODManager
on(callbacks, event, callback) ==
    IF event \in DOMAIN callbacks THEN [callbacks EXCEPT ![event] = SetAdd(@, callback)]
    ELSE callbacks
off(callbacks, event, callback) ==
    IF event \in DOMAIN callbacks THEN [callbacks EXCEPT ![event] = Without(@, callback)]
    ELSE callbacks

\* notifyCallbacks(event, data) of ModelCache and LODManager
notifyCallbacks(callbacks, event) ==
    IF event \in DOMAIN callbacks THEN forEachCallback(callbacks[event], NewRun)
    ELSE NewRun

\* PerformanceMonitor.notifyPerformanceIssues(issues)
notifyPerformanceIssues(callbacks) == forEachCallback(callbacks, NewRun)

InitRegistry ==
    [cache |-> [event \in CacheEvents |-> <<>>],
     lod |-> [event \in LodEvents |-> <<>>],
     monitor |-> <<>>]

InitNotify ==
    /\ registry = InitRegistry
    /\ subscriptions = 0
    /\ notification = NoNotification

-----------------------------------------------------------------------------
(* ModelOptimizationSystem: the registry in front of the LODManager *)

\* ModelTypeConfigs.prop, the type of a registration without options.type
PropConfig == [lodDistances |-> [near |-> 4, medium |-> 10, far |-> 20], preload |-> FALSE]

NoSystemCall == [op |-> "none", entity |-> "none"]
InitSystem == [registeredModels |-> {}, unregistered |-> {}, last |-> NoSystemCall]

-----------------------------------------------------------------------------
(* PerformanceMonitor: the current metrics and the copies handed out *)

\* currentMetrics.memoryUsage is a reference to an object; heap holds the
\* objects, a reference is an index into it
NoSnapshot == [taken |-> FALSE, via |-> "none",
               metrics |-> [fps |-> 0, renderTime |-> 0, memoryUsage |-> 1]]
InitMonitor ==
    [currentMetrics |-> [fps |-> 0, renderTime |-> 0, memoryUsage |-> 1],
     heap |-> <<[used |-> 0, total |-> 0, percentage |-> 0]>>,
     snapshot |-> NoSnapshot,
     writes |-> 0]

\* `{ ...this.currentMetrics }`: the own properties are copied, a property
\* that holds a reference is copied as that reference
ShallowCopy(metrics) == [field \in DOMAIN metrics |-> metrics[field]]

getCurrentMetrics(m) == ShallowCopy(m.currentMetrics)

\* updateMemoryMetrics: currentMetrics.memoryUsage = { used, total, percentage }
updateMemoryMetrics(m, memoryInfo) ==
    [m EXCEPT !.heap = Append(@, memoryInfo),
              !.currentMetrics.memoryUsage = Len(m.heap) + 1]

\* the conditions of checkPerformanceIssues
HasIssues(m) ==
    \/ 10 * m.currentMetrics.fps < 8 * TargetFPS
    \/ m.heap[m.currentMetrics.memoryUsage].percentage > 80
    \/ m.currentMetrics.renderTime > 33

\* the low_fps condition of checkPerformanceIssues; alertThreshold is 0.8
LowFps(m) == 10 * m.currentMetrics.fps < 8 * TargetFPS

\* monitorLoop for one frame: the sample, then checkPerformanceIssues, whose
\* notification carries `metrics: { ...this.currentMetrics }` to the callbacks
monitorLoop(m, frame, callbacks) ==
    LET m1 == [m EXCEPT !.currentMetrics.fps = frame.fps,
                        !.currentMetrics.renderTime = frame.renderTime]
    IN IF HasIssues(m1) /\ callbacks # <<>>
       THEN [m1 EXCEPT !.snapshot = [taken |-> TRUE, via |-> "notification",
                                     metrics |-> ShallowCopy(m1.currentMetrics)]]
       ELSE m1

\* the tail of checkPerformanceIssues without `this.consecutiveIssues = 0`
checkPerformanceIssuesNoReset(pm, found) ==
    IF found THEN [pm EXCEPT !.consecutiveIssues = @ + 1] ELSE pm

\* the tail of checkPerformanceIssues: found is `issues.length > 0`
checkPerformanceIssues(pm, found) ==
    IF found THEN [pm EXCEPT !.consecutiveIssues = @ + 1]
    ELSE [pm EXCEPT !.consecutiveIssues = 0]

\* the sample of a monitorLoop: none on the first frame (lastFrameTime is 0)
SampleOf(pm, m, frame) ==
    IF pm.sampled THEN frame
    ELSE [fps |-> m.currentMetrics.fps, renderTime |-> m.currentMetrics.renderTime]

\* what the observer reports: its metrics with the memory usage looked up
Observed(m) ==
    [fps |-> m.currentMetrics.fps, renderTime |-> m.currentMetrics.renderTime,
     memoryUsage |-> m.heap[m.currentMetrics.memoryUsage]]

-----------------------------------------------------------------------------
(* LODManager: assets, display elements, transitions *)

Entities == {"m1"}
\* `${entityId}_${quality}`
CacheKey(entityId, quality) == <<entityId, quality>>

\* the A-Frame element of an asset: what is attached as 'mesh' and its
\* 'visible' attribute; document.getElementById may return null
NoElement == [present |-> FALSE, mesh |-> "none", visible |-> FALSE]
NewElement == [present |-> TRUE, mesh |-> "none", visible |-> TRUE]

NoTimeout == [pending |-> FALSE, deadline |-> 0]

\* `priority: options.priority || 5`
DefaultPriority == 5

\* what a call into the LODManager carries across its awaits: the asset, the
\* tier requested by the caller, the tier being attempted and the quality
\* before it, the tiers attempted and failed so far, and for an optimisation
\* pass the assets still to visit and whether memory is to be cleaned
NewCtx(op, entityId) ==
    [op |-> op, entity |-> entityId,
     requested |-> "none", target |-> "none", prev |-> "none",
     attempts |-> <<>>, failed |-> <<>>, rest |-> <<>>, memory |-> FALSE,
     display |-> "none"]

NoCall == [ctx |-> NewCtx("none", "none"), outcome |-> "none"]
\* calls: scheduleOptimization calls since the timer last fired, first and
\* last: the times of the first and the latest of them (after a firing, of
\* the calls that led to it), burst: the number of calls that led to the
\* last firing
NoDebounce == [calls |-> 0, first |-> 0, last |-> 0, burst |-> 0]

\* positions on a line; the element of an asset is at the origin
NoPosition == -1
calculateDistance(pos1, pos2) ==
    IF pos1 = NoPosition \/ pos2 = NoPosition THEN Infinity
    ELSE IF pos1 >= pos2 THEN pos1 - pos2 ELSE pos2 - pos1

ElementPosition(element) == IF element.present THEN 0 ELSE NoPosition

\* `cameraData.distance || this.calculateDistance(...)`: 0 is falsy
DistanceOf(cameraData, element) ==
    IF cameraData.distance # 0 THEN cameraData.distance
    ELSE calculateDistance(cameraData.position, ElementPosition(element))

applyModelToElement(element, quality) ==
    [element EXCEPT !.mesh = quality, !.visible = TRUE]

\* applyModelToElement on an element one of whose methods throws: the try
\* block is left at that call and the catch block logs
applyModelToElementOn(element, quality, failure) ==
    IF failure = "removeObject3D" /\ element.mesh # "none" THEN element
    ELSE IF failure = "setObject3D" THEN [element EXCEPT !.mesh = "none"]
    ELSE IF failure = "setAttribute" THEN [element EXCEPT !.mesh = quality]
    ELSE applyModelToElement(element, quality)

isModelVisible(element) == element.present /\ element.visible

EmitLod(m, ev) == [m EXCEPT !.emitted = Append(@, ev)]

\* the observer's callback is invoked with the event
Deliver(m, ev) == IF m.observed THEN [m EXCEPT !.delivered = Append(@, ev.type)] ELSE m

\* an unloadModel that counts every call as a quality change
unloadModelCounted(m, entityId) ==
    [m EXCEPT !.stats.qualityChanges = @ + 1]

\* a scheduleOptimization that leaves a pending timer alone (a throttle)
scheduleOptimizationKeep(m, time) ==
    IF m.optimizationTimeout.pending THEN m
    ELSE [m EXCEPT !.optimizationTimeout =
                      [pending |-> TRUE, deadline |-> time + DebounceDelay]]

\* an unloadModel that clears the loaded flag and keeps the current quality
unloadModelKeepQuality(m, entityId) ==
    IF entityId \notin DOMAIN m.activeModels THEN m
    ELSE [m EXCEPT !.activeModels[entityId].isLoaded = FALSE]

unloadModel(m, entityId) ==
    IF entityId \notin DOMAIN m.activeModels THEN m
    ELSE LET config == m.activeModels[entityId]
             element == IF config.element.present
                        THEN [config.element EXCEPT !.mesh = "none", !.visible = FALSE]
                        ELSE config.element
         IN [m EXCEPT !.activeModels[entityId] =
                [config EXCEPT !.element = element,
                               !.isLoaded = FALSE,
                               !.currentQuality = "none"]]

\* unloadModel on an element one of whose methods throws: nothing catches,
\* the statements after the call that throws are not executed
unloadModelOn(m, entityId, failure) ==
    IF entityId \notin DOMAIN m.activeModels THEN [m |-> m, thrown |-> FALSE]
    ELSE LET config == m.activeModels[entityId]
             element == config.element
         IN IF ~element.present \/ failure \notin {"removeObject3D", "setAttribute"}
            THEN [m |-> unloadModel(m, entityId), thrown |-> FALSE]
            ELSE IF failure = "removeObject3D"
            THEN IF element.mesh # "none" THEN [m |-> m, thrown |-> TRUE]
                 ELSE [m |-> unloadModel(m, entityId), thrown |-> FALSE]
            ELSE [m |-> [m EXCEPT !.activeModels[entityId].element.mesh = "none"],
                  thrown |-> TRUE]

\* the loop of cleanup over activeModels.keys()
RECURSIVE unloadEachOn(_, _, _)
unloadEachOn(m, ids, failure) ==
    IF ids = <<>> THEN [m |-> m, thrown |-> FALSE]
    ELSE LET r == unloadModelOn(m, Head(ids), failure)
         IN IF r.thrown THEN r ELSE unloadEachOn(r.m, Tail(ids), failure)

\* LODManager.cleanup: the cache is destroyed, every asset unloaded, the
\* timer cleared and the manager marked uninitialised
cleanupOn(w, failure) ==
    LET c1 == clear(w.c)
        r == unloadEachOn(w.m, w.m.order, failure)
    IN IF r.thrown THEN [w |-> [w EXCEPT !.c = c1, !.m = r.m], thrown |-> TRUE]
       ELSE [w |-> [w EXCEPT !.c = c1,
                             !.m = [r.m EXCEPT !.optimizationTimeout = NoTimeout,
                                               !.isInitialized = FALSE]],
             thrown |-> FALSE]

scheduleOptimization(m, time) ==
    [m EXCEPT !.optimizationTimeout = [pending |-> TRUE, deadline |-> time + DebounceDelay]]

\* a fallback that does not retry after a failure at medium
FallbackOnce(quality) ==
    IF quality = "high" THEN "medium" ELSE "none"

\* the tier changeModelQuality retries at after a failure at quality
Fallback(quality) ==
    IF quality = "high" THEN "medium"
    ELSE IF quality = "medium" THEN "low"
    ELSE "none"


-----------------------------------------------------------------------------
(* LODManager: asynchronous operations.  An operator takes the world       *)
(* w = [c, m, touched, scheduled] (cache, manager, keys hit and timers set *)
(* so far in this callback) and runs the code to the await that suspends   *)
(* it: frame is the suspended call, or NoFrame when the call has returned. *)
(* A continuation whose promise is already settled runs in the same        *)
(* callback: microtasks are drained before the next timer or event.        *)

NoFrame == [pc |-> "none"]

World(c, m) == [c |-> c, m |-> m, touched |-> <<>>, scheduled |-> 0]
Returned(w, ctx) == [w |-> w, frame |-> NoFrame, ctx |-> ctx]
Loading(w, key, ctx) ==
    [w |-> w, frame |-> [pc |-> "loading", key |-> key, size |-> 0, ctx |-> ctx],
     ctx |-> ctx]

\* ModelCache.get(key, loader) up to `await loader()`
getEnter(w, key) ==
    LET c0 == [w.c EXCEPT !.totalRequests = @ + 1] IN
    IF key \in DOMAIN c0.cache
    THEN [w |-> [w EXCEPT !.c = updateAccess([c0 EXCEPT !.cacheHits = @ + 1], key, now),
                          !.touched = Append(@, key)],
          hit |-> TRUE]
    ELSE [w |-> [w EXCEPT !.c = [c0 EXCEPT !.cacheMisses = @ + 1]], hit |-> FALSE]

\* updateModelLOD after changeModelQuality: "Atualizar estado" and the
\* automatic optimisation
updateFinish(w, ctx) ==
    LET e == ctx.entity
        config == w.m.activeModels[e]
        m1 == [w.m EXCEPT !.activeModels[e] =
                  [config EXCEPT !.lastUpdate = now,
                                 !.isVisible = isModelVisible(config.element)]]
        schedule == m1.config.autoOptimize /\ ~m1.isOptimizing
    IN Returned([w EXCEPT !.m = IF schedule THEN scheduleOptimization(m1, now) ELSE m1,
                          !.scheduled = IF schedule THEN @ + 1 ELSE @], ctx)

\* Array.from(usage.entries()).sort(by accessCount).slice(0, count): the sort
\* is stable, so equal counts keep the insertion order of the usage Map
RECURSIVE SortByAccessCount(_, _)
SortByAccessCount(usage, keys) ==
    IF keys = <<>> THEN <<>>
    ELSE LET least == CHOOSE i \in DOMAIN keys : \A j \in DOMAIN keys :
                         \/ usage[keys[i]].accessCount < usage[keys[j]].accessCount
                         \/ /\ usage[keys[i]].accessCount = usage[keys[j]].accessCount
                            /\ i <= j
         IN <<keys[least]>> \o SortByAccessCount(usage, Without(keys, keys[least]))

getLeastUsedEntries(c, count) ==
    LET sorted == SortByAccessCount(c.usage, c.usageKeys)
    IN SubSeq(sorted, 1, IF Len(sorted) < count THEN Len(sorted) ELSE count)


\* Math.ceil(leastUsed.length * 0.25) of the least used entries are deleted
performMemoryCleanup(c) ==
    LET leastUsed == getLeastUsedEntries(c, 5)
        itemsToRemove == (Len(leastUsed) + 3) \div 4
    IN deleteEach(c, SubSeq(leastUsed, 1, itemsToRemove))

\* second loop of applyPerformanceOptimizations: assets not visible and not
\* updated for more than maxIdleTime are unloaded
RECURSIVE unloadIdle(_, _)
unloadIdle(m, ids) ==
    IF ids = <<>> THEN m
    ELSE LET config == m.activeModels[Head(ids)]
             idle == ~config.isVisible /\ (now - config.lastUpdate) > MaxIdleTime
         IN unloadIdle(IF idle THEN unloadModel(m, Head(ids)) ELSE m, Tail(ids))

\* activeModels.sort((a, b) => a[1].priority - b[1].priority): stable,
\* equal priorities keep the order of the activeModels Map
RECURSIVE SortByPriority(_, _)
SortByPriority(configs, ids) ==
    IF ids = <<>> THEN <<>>
    ELSE LET least == CHOOSE i \in DOMAIN ids : \A j \in DOMAIN ids :
                         \/ configs[ids[i]].priority < configs[ids[j]].priority
                         \/ /\ configs[ids[i]].priority = configs[ids[j]].priority
                            /\ i <= j
         IN <<ids[least]>> \o SortByPriority(configs, Without(ids, ids[least]))

RECURSIVE unloadEach(_, _)
unloadEach(m, ids) ==
    IF ids = <<>> THEN m ELSE unloadEach(unloadModel(m, Head(ids)), Tail(ids))

\* a reduceActiveModels without the sort: the first loaded assets of the Map
reduceActiveModelsUnsorted(m) ==
    LET Loaded(id) == m.activeModels[id].isLoaded
        activeModels == SelectSeq(m.order, Loaded)
        toUnload == (3 * Len(activeModels) + 9) \div 10
    IN unloadEach(m, SubSeq(activeModels, 1, toUnload))

\* Math.ceil(activeModels.length * 0.3) of the loaded assets, lowest priority
\* first, are unloaded
reduceActiveModels(m) ==
    LET Loaded(id) == m.activeModels[id].isLoaded
        activeModels == SortByPriority(m.activeModels, SelectSeq(m.order, Loaded))
        toUnload == (3 * Len(activeModels) + 9) \div 10
    IN unloadEach(m, SubSeq(activeModels, 1, toUnload))

\* the metrics read by an optimizeForPerformance called from a callback
RerunMetrics == [fps |-> 30, memory |-> 50]

RECURSIVE optimizeForPerformance(_, _, _)

\* optimizeForPerformance after applyPerformanceOptimizations: the memory
\* cleanup and the finally block
optimizeFinish(w, ctx) ==
    LET c1 == IF ctx.memory THEN performMemoryCleanup(w.c) ELSE w.c
        end == [type |-> "optimizationEnd"]
        m1 == EmitLod([w.m EXCEPT !.isOptimizing = FALSE], end)
        w1 == [w EXCEPT !.c = c1, !.m = m1]
        \* notifyCallbacks('optimizationEnd'): the first callback calls
        \* optimizeForPerformance, which finds the metrics fine and returns
        \* without an await; then the observer's callback is invoked
        again == optimizeForPerformance([w1 EXCEPT !.m.rerun = FALSE],
                                        NewCtx("optimize", "none"), RerunMetrics)
    IN IF m1.rerun THEN Returned([again.w EXCEPT !.m = Deliver(@, end)], ctx)
       ELSE Returned([w1 EXCEPT !.m = Deliver(@, end)], ctx)

\* changeModelQuality after `await this.preloadModel(...)` has returned a model
cqApply(w, ctx) ==
    LET e == ctx.entity
        config == w.m.activeModels[e]
        element == IF config.element.present
                   THEN applyModelToElementOn(config.element, ctx.target, ctx.display)
                   ELSE config.element
        m1 == [w.m EXCEPT !.activeModels[e] =
                             [config EXCEPT !.element = element,
                                            !.currentQuality = ctx.target,
                                            !.isLoaded = TRUE],
                          !.stats.qualityChanges = @ + 1]
    IN [w EXCEPT !.m = EmitLod(m1, [type |-> "qualityChange", entityId |-> e,
                                    previousQuality |-> ctx.prev,
                                    newQuality |-> ctx.target])]

RECURSIVE cqStart(_, _, _)
RECURSIVE cqReturn(_, _)
RECURSIVE downgradeLoop(_, _)
RECURSIVE reduceLoop(_, _)

\* changeModelQuality(entityId, targetQuality) from its first line
cqStart(w, ctx, targetQuality) ==
    IF \/ ctx.entity \notin DOMAIN w.m.activeModels
       \/ targetQuality \notin w.m.activeModels[ctx.entity].paths
    THEN cqReturn(w, ctx)
    ELSE LET ctx1 == [ctx EXCEPT !.target = targetQuality,
                                 !.prev = w.m.activeModels[ctx.entity].currentQuality,
                                 !.attempts = Append(@, targetQuality)]
             key == CacheKey(ctx.entity, targetQuality)
             g == getEnter(w, key)
         IN IF g.hit THEN cqReturn(cqApply(g.w, ctx1), ctx1)
            ELSE Loading(g.w, key, ctx1)

\* a catch block that marks the asset unloaded before it falls back
cqCatchUnload(w, ctx) ==
    LET ctx1 == [ctx EXCEPT !.failed = Append(@, ctx.target)]
        w1 == [w EXCEPT !.m = unloadModel(@, ctx.entity)]
    IN IF Fallback(ctx.target) # "none"
       THEN cqStart(w1, ctx1, Fallback(ctx.target))
       ELSE cqReturn(w1, ctx1)

\* the catch block of changeModelQuality
cqCatch(w, ctx) ==
    LET ctx1 == [ctx EXCEPT !.failed = Append(@, ctx.target)] IN
    IF Fallback(ctx.target) # "none"
    THEN cqStart(w, ctx1, Fallback(ctx.target))
    ELSE cqReturn(w, ctx1)

\* the outermost changeModelQuality returns to its caller
cqReturn(w, ctx) ==
    IF ctx.op = "update" THEN updateFinish(w, ctx)
    ELSE IF ctx.op = "reduce" THEN reduceLoop(w, [ctx EXCEPT !.rest = Tail(@)])
    ELSE downgradeLoop(w, [ctx EXCEPT !.rest = Tail(@)])

\* the loop of reduceAllModelQuality over the assets still to visit, after
\* its first await
reduceLoop(w, ctx) ==
    IF ctx.rest = <<>> THEN Returned(w, ctx)
    ELSE LET e == Head(ctx.rest)
             quality == w.m.activeModels[e].currentQuality
         IN IF quality = "high" THEN cqStart(w, [ctx EXCEPT !.entity = e], "medium")
            ELSE IF quality = "medium" THEN cqStart(w, [ctx EXCEPT !.entity = e], "low")
            ELSE reduceLoop(w, [ctx EXCEPT !.rest = Tail(@)])

\* first loop of applyPerformanceOptimizations over the assets that were
\* visible and loaded when the pass started, then the rest of the pass
downgradeLoop(w, ctx) ==
    IF ctx.rest = <<>>
    THEN optimizeFinish([w EXCEPT !.m = unloadIdle(@, @.order)], ctx)
    ELSE LET e == Head(ctx.rest)
             quality == w.m.activeModels[e].currentQuality
         IN IF quality = "high" THEN cqStart(w, [ctx EXCEPT !.entity = e], "medium")
            ELSE IF quality = "medium" THEN cqStart(w, [ctx EXCEPT !.entity = e], "low")
            ELSE downgradeLoop(w, [ctx EXCEPT !.rest = Tail(@)])

\* reduceAllModelQuality() as handlePerformanceIssue calls it, without await:
\* it runs to its first `await this.changeModelQuality(...)`, and within that
\* call to `await this.preloadModel(...)`.  pc tells where it stands: "done"
\* (no asset to lower), "returned" (changeModelQuality returned on its first
\* line), "hit" (the cache had the model) or "loading"
RECURSIVE reduceEnter(_, _)
reduceEnter(w, ctx) ==
    IF ctx.rest = <<>> THEN [w |-> w, pc |-> "done", key |-> <<>>, ctx |-> ctx]
    ELSE LET e == Head(ctx.rest)
             config == w.m.activeModels[e]
             quality == config.currentQuality
             targetQuality == IF quality = "high" THEN "medium" ELSE "low"
             ctx1 == [ctx EXCEPT !.entity = e, !.target = targetQuality,
                                 !.prev = quality, !.attempts = Append(@, targetQuality)]
             key == CacheKey(e, targetQuality)
             g == getEnter(w, key)
         IN IF quality \notin {"high", "medium"}
            THEN reduceEnter(w, [ctx EXCEPT !.rest = Tail(@)])
            ELSE IF targetQuality \notin config.paths
            THEN [w |-> w, pc |-> "returned", key |-> <<>>, ctx |-> [ctx EXCEPT !.entity = e]]
            ELSE [w |-> g.w, pc |-> IF g.hit THEN "hit" ELSE "loading", key |-> key,
                  ctx |-> ctx1]

NotStarted(w, ctx) == [w |-> w, pc |-> "none", key |-> <<>>, ctx |-> ctx]

\* the forEach of handlePerformanceIssue: p is the reduceAllModelQuality call
\* started so far, which waits for the forEach to end
RECURSIVE applyRecommendations(_, _)
applyRecommendations(p, recommendations) ==
    IF recommendations = <<>> THEN p
    ELSE LET recommendation == Head(recommendations)
             w == p.w
             p1 == IF recommendation = "reduce_model_quality"
                   THEN reduceEnter(w, [p.ctx EXCEPT !.rest = w.m.order])
                   ELSE IF recommendation = "clear_cache"
                   THEN [p EXCEPT !.w.c = clear(w.c)]
                   ELSE IF recommendation = "reduce_active_models"
                   THEN [p EXCEPT !.w.m = reduceActiveModels(w.m)]
                   ELSE p
         IN applyRecommendations(p1, Tail(recommendations))

\* handlePerformanceIssue(notification), then the continuation of the
\* reduceAllModelQuality call it has started
handlePerformanceIssue(w, ctx, recommendations) ==
    LET p == applyRecommendations(NotStarted(w, ctx), recommendations)
    IN IF p.pc = "loading" THEN Loading(p.w, p.key, p.ctx)
       ELSE IF p.pc = "hit" THEN cqReturn(cqApply(p.w, p.ctx), p.ctx)
       ELSE IF p.pc = "returned" THEN cqReturn(p.w, p.ctx)
       ELSE Returned(p.w, p.ctx)

\* optimizeForPerformance after its first line: a pass that starts
optimizeRun(w, ctx, metrics) ==
    LET start == [type |-> "optimizationStart"]
        m1 == Deliver(EmitLod([w.m EXCEPT !.isOptimizing = TRUE,
                                          !.stats.optimizationRuns = @ + 1], start),
                      start)
        Active(e) == m1.activeModels[e].isVisible /\ m1.activeModels[e].isLoaded
        ctx1 == [ctx EXCEPT !.memory = metrics.memory > 80]
        w1 == [w EXCEPT !.m = m1]
    IN IF 10 * metrics.fps < 8 * TargetFPS
       THEN downgradeLoop(w1, [ctx1 EXCEPT !.rest = SelectSeq(m1.order, Active)])
       ELSE optimizeFinish(w1, ctx1)

\* an optimizeForPerformance without `if (this.isOptimizing) return`
optimizeForPerformanceUnguarded(w, ctx, metrics) == optimizeRun(w, ctx, metrics)

optimizeForPerformance(w, ctx, metrics) ==
    IF w.m.isOptimizing THEN Returned(w, ctx)
    ELSE optimizeRun(w, ctx, metrics)

\* registerModel after the preload: the modelLoad notification
registerFinish(w, ctx) ==
    Returned([w EXCEPT !.m = EmitLod(@, [type |-> "modelLoad", entityId |-> ctx.entity])],
             ctx)

registerModel(w, ctx, modelPaths, preload, element) ==
    LET e == ctx.entity
        modelConfig == [paths |-> modelPaths,
                        lodDistances |-> w.m.config.distances,
                        currentQuality |-> "none",
                        isLoaded |-> FALSE,
                        isVisible |-> FALSE,
                        lastUpdate |-> 0,
                        priority |-> DefaultPriority,
                        preload |-> preload,
                        element |-> element]
        m1 == [w.m EXCEPT !.activeModels = MapSet(@, e, modelConfig),
                          !.order = IF e \in Range(@) THEN @ ELSE Append(@, e),
                          !.stats.modelsRegistered = @ + 1]
        w1 == [w EXCEPT !.m = m1]
    IN IF preload /\ "low" \in modelPaths
       THEN LET g == getEnter(w1, CacheKey(e, "low"))
            IN IF g.hit THEN registerFinish(g.w, ctx)
               ELSE Loading(g.w, CacheKey(e, "low"), ctx)
       ELSE registerFinish(w1, ctx)

updateModelLOD(w, ctx, cameraData) ==
    IF ctx.entity \notin DOMAIN w.m.activeModels THEN Returned(w, ctx)
    ELSE LET config == w.m.activeModels[ctx.entity]
             distance == DistanceOf(cameraData, config.element)
             targetQuality == determineQuality(distance, config.lodDistances)
         IN IF targetQuality # config.currentQuality
            THEN cqStart(w, [ctx EXCEPT !.requested = targetQuality], targetQuality)
            ELSE updateFinish(w, ctx)

\* the call suspended in f resumes: its load has succeeded (ok) or failed
Resume(w, f, ok) ==
    IF f.ctx.op = "register" THEN registerFinish(w, f.ctx)
    ELSE IF ok THEN cqReturn(cqApply(w, f.ctx), f.ctx)
    ELSE cqCatch(w, f.ctx)

BeginLod == [lodManager EXCEPT !.emitted = <<>>]

RECURSIVE TouchAll(_, _)
TouchAll(s, keys) ==
    IF keys = <<>> THEN s ELSE TouchAll(Touch(s, Head(keys)), Tail(keys))

\* the state after a callback that resumed f (NoFrame: a new call) with result r
Outcome(r, f) ==
    /\ modelCache' = r.w.c
    /\ lodManager' = r.w.m
    /\ calls' = LET others == IF f.pc = "none" THEN calls ELSE Leave(f)
                IN IF r.frame.pc = "none" THEN others
                   ELSE others (+) SetToBag({r.frame})
    /\ BagCardinality(calls') <= MaxCalls
    /\ lastCall' = IF r.frame.pc = "none"
                   THEN [ctx |-> r.ctx, outcome |-> "resolved"]
                   ELSE NoCall
    /\ recency' = Restrict(TouchAll(recency, r.w.touched), DOMAIN r.w.c.cache)
    /\ insertOrder' = Restrict(insertOrder, DOMAIN r.w.c.cache)
    /\ evictedFrom' = IF LruEvictions(r.w.c) # {} THEN insertOrder ELSE <<>>
    /\ pendingTransitions' =
          LET Transition(g) == <<g.ctx.entity, g.ctx.target>>
              InFlight(g) == g.pc # "none" /\ g.ctx.op # "register"
              others == IF InFlight(f) THEN SpliceFirst(pendingTransitions, Transition(f))
                        ELSE pendingTransitions
          IN IF InFlight(r.frame) THEN Append(others, Transition(r.frame)) ELSE others

Scheduled(r) ==
    debounce' = IF r.w.scheduled > 0
                THEN [calls |-> debounce.calls + r.w.scheduled,
                      first |-> IF debounce.calls = 0 THEN now ELSE debounce.first,
                      last |-> now, burst |-> 0]
                ELSE debounce

-----------------------------------------------------------------------------
(* Initial state: the cache after its constructor *)

InitCache ==
    [cache |-> EmptyMap, usage |-> EmptyMap, usageKeys |-> <<>>, accessOrder |-> <<>>,
     currentSize |-> 0, totalRequests |-> 0, cacheHits |-> 0, cacheMisses |-> 0,
     config |-> [maxSize |-> CfgMaxSize, maxEntries |-> CfgMaxEntries],
     emitted |-> <<>>]

\* the LODManager after its constructor and initialize()
InitLODManager(autoOptimize) ==
    [activeModels |-> EmptyMap,
     isInitialized |-> TRUE,
     order |-> <<>>,
     isOptimizing |-> FALSE,
     optimizationTimeout |-> NoTimeout,
     stats |-> [modelsRegistered |-> 0, qualityChanges |-> 0, optimizationRuns |-> 0],
     config |-> [distances |-> DefaultDistances, autoOptimize |-> autoOptimize],
     emitted |-> <<>>,
     \* callbacks of optimizationStart and optimizationEnd: a subscriber that calls
     \* optimizeForPerformance once from its optimizationEnd callback, registered
     \* first, and an observer of both events; delivered is what the observer
     \* has received
     rerun |-> FALSE,
     observed |-> FALSE,
     delivered |-> <<>>]

NoDisplayCall == [op |-> "none", failure |-> "none", thrown |-> FALSE]
\* checks: the checkPerformanceIssues steps made, found: the last one found
\* issues, streak: the consecutive steps with issues up to the last one,
\* sinceStart: those of them made since monitoring was last started or reset
\* scheduled: the requestAnimationFrame callbacks waiting for the next frame,
\* running: the callbacks of the present frame still to run, inFrame: the
\* checkPerformanceIssues steps made by the callbacks of the present frame
InitIssues == [isMonitoring |-> FALSE, consecutiveIssues |-> 0, sampled |-> FALSE,
               checks |-> 0, found |-> FALSE, streak |-> 0, sinceStart |-> 0,
               scheduled |-> 0, running |-> 0, inFrame |-> 0,
               \* fpsHistory.length > 0
               hasSample |-> FALSE]
InitLater ==
    /\ display = NoDisplayCall
    /\ lowering = EmptyMap
    /\ issues = InitIssues
    /\ interrupted = {}

InitOther ==
    /\ severity = NoSeverity
    /\ runs = 0
    /\ pendingTransitions = <<>>
    /\ InitNotify
    /\ monitor = InitMonitor
    /\ system = InitSystem
    /\ InitLater

InitHistory ==
    /\ recency = <<>>
    /\ insertOrder = <<>>
    /\ evictedFrom = <<>>
    /\ lodCalls = 0
    /\ lastCall = NoCall
    /\ lastEval = EmptyMap
    /\ ticks = 0
    /\ debounce = NoDebounce

Init ==
    /\ modelCache = InitCache
    /\ calls = EmptyBag
    /\ now = 0
    /\ decision = NoDecision
    /\ lodManager = InitLODManager(TRUE)
    /\ InitHistory
    /\ InitOther

-----------------------------------------------------------------------------
(* Actions of the cache *)

\* ModelCache.get(key, loader) up to `await loader()`
CacheGet(key) ==
    /\ modelCache.totalRequests < MaxRequests
    /\ lastCall' = NoCall
    /\ UNCHANGED <<now, decision, otherVars, lodManager, lodCalls, lastEval, ticks, debounce>>
    /\ LET c0 == [Begin EXCEPT !.totalRequests = @ + 1] IN
       IF key \in DOMAIN c0.cache
       THEN /\ modelCache' = updateAccess([c0 EXCEPT !.cacheHits = @ + 1], key, now)
            /\ Accessed(key, FALSE)
            /\ UNCHANGED calls
       ELSE /\ CanSuspend
            /\ modelCache' = [c0 EXCEPT !.cacheMisses = @ + 1]
            /\ calls' = Enter([pc |-> "loading", key |-> key, size |-> 0, ctx |-> NoCtx])
            /\ Removed(c0)

\* the loader's promise is fulfilled with a model; get calls set, which runs
\* to its first suspension
LoaderResolve(f, model) ==
    /\ lastCall' = NoCall
    /\ UNCHANGED <<now, decision, otherVars, lodManager, lodCalls, lastEval, ticks, debounce>>
    /\ f.pc = "loading"
    /\ LET r == setStart(Begin, model) IN
       /\ modelCache' = r.c
       /\ calls' = Move(f, [f EXCEPT !.pc = r.pc, !.size = model])
       /\ Removed(r.c)

\* the loader's promise is rejected: the catch block of get, which rethrows
\* to the caller of get
LoaderReject(f) ==
    /\ UNCHANGED <<now, decision, pureVars, lodCalls, lastEval, ticks>>
    /\ f.pc = "loading"
    /\ LET c1 == getCatch(Begin, f.key) IN
       IF f.ctx.op = "none"
       THEN /\ modelCache' = c1
            /\ calls' = Leave(f)
            /\ Removed(modelCache)
            /\ lastCall' = [ctx |-> NewCtx("get", "none"), outcome |-> "rejected"]
            /\ UNCHANGED <<lodManager, debounce, pendingTransitions>>
       ELSE LET r == Resume(World(c1, BeginLod), f, FALSE)
            IN Outcome(r, f) /\ Scheduled(r)

\* ensureSpace resumes after `await this.evictLeastUsed()`: next loop test
EnsureSpaceStep(f) ==
    /\ lastCall' = NoCall
    /\ UNCHANGED <<now, decision, otherVars, lodManager, lodCalls, lastEval, ticks, debounce>>
    /\ f.pc = "ensureSpace"
    /\ LET r == ensureSpaceIter(Begin, f.size) IN
       /\ modelCache' = r.c
       /\ calls' = Move(f, [f EXCEPT !.pc = IF r.done THEN "insert" ELSE "ensureSpace"])
       /\ Removed(r.c)

\* set resumes after `await this.ensureSpace(size)` and stores the entry
SetInsert(f) ==
    /\ lastCall' = NoCall
    /\ UNCHANGED <<now, decision, otherVars, lodManager, lodCalls, lastEval, ticks, debounce>>
    /\ f.pc = "insert"
    /\ modelCache' = setInsert(Begin, f.key, f.size, now)
    /\ calls' = Move(f, [f EXCEPT !.pc = "setDone"])
    /\ Accessed(f.key, TRUE)

\* the caller of set resumes: get emits `load` and returns the model
SetReturn(f) ==
    /\ UNCHANGED <<now, decision, pureVars, lodCalls, lastEval, ticks>>
    /\ f.pc = "setDone"
    /\ LET c1 == Emit(Begin, [type |-> "load", key |-> f.key]) IN
       IF f.ctx.op = "none"
       THEN /\ modelCache' = c1
            /\ calls' = Leave(f)
            /\ Removed(modelCache)
            /\ lastCall' = NoCall
            /\ UNCHANGED <<lodManager, debounce, pendingTransitions>>
       ELSE LET r == Resume(World(c1, BeginLod), f, TRUE)
            IN Outcome(r, f) /\ Scheduled(r)

\* ModelCache.delete(key), called from outside
CacheDelete(key) ==
    /\ modelCache' = delete(Begin, key)
    /\ Removed(modelCache')
    /\ lastCall' = NoCall
    /\ UNCHANGED <<calls, now, decision, otherVars, lodManager, lodCalls, lastEval, ticks,
                   debounce>>

\* ModelCache.clear(), called from outside
CacheClear ==
    /\ modelCache' = clear(Begin)
    /\ Removed(modelCache')
    /\ lastCall' = NoCall
    /\ UNCHANGED <<calls, now, decision, otherVars, lodManager, lodCalls, lastEval, ticks,
                   debounce>>

Next ==
    \/ \E key \in CacheKeys : CacheGet(key)
    \/ \E f \in Suspended, model \in ModelSizes : LoaderResolve(f, model)
    \/ \E f \in Suspended : LoaderReject(f)
    \/ \E f \in Suspended : EnsureSpaceStep(f)
    \/ \E f \in Suspended : SetInsert(f)
    \/ \E f \in Suspended : SetReturn(f)
    \/ \E key \in CacheKeys : CacheDelete(key)
    \/ CacheClear

Spec == Init /\ [][Next]_vars


\* C40: in every reachable state accessOrder lists each stored key exactly
\* once and no key that is not stored, and usage has the keys of cache
C40_OrderListsStoredKeys ==
    /\ Range(modelCache.accessOrder) = DOMAIN modelCache.cache
    /\ Len(modelCache.accessOrder) = Cardinality(DOMAIN modelCache.cache)
    /\ DOMAIN modelCache.usage = DOMAIN modelCache.cache

\* two keys are stored, one of them by two calls of set (its size is counted
\* twice in currentSize)
C40_Witness ==
    /\ Cardinality(DOMAIN modelCache.cache) = 2
    /\ modelCache.currentSize > SumSizes(modelCache.cache, DOMAIN modelCache.cache)

-----------------------------------------------------------------------------
(* The cache under every configuration: in SpecConfig the cache is         *)
(* constructed with maxSize and maxEntries of the caller's choice, zero    *)
(* entries included, and config.maxSize is assigned again while entries    *)
(* are stored                                                              *)

\* number of get calls made in these runs
MaxConfigRequests == 3
ConfigMaxSizes == {2, 4}
\* the keys asked for and the sizes of the models loaded in these runs
ConfigKeys == {"A", "B"}
ConfigModelSizes == {1, 2}
ConfigMaxEntries == {0, 1, 2}

\* new ModelCache(config): `...config` replaces the defaults
InitConfig ==
    /\ \E maxSize \in ConfigMaxSizes, maxEntries \in ConfigMaxEntries :
          modelCache = [InitCache EXCEPT !.config = [maxSize |-> maxSize,
                                                    maxEntries |-> maxEntries]]
    /\ calls = EmptyBag
    /\ now = 0
    /\ decision = NoDecision
    /\ lodManager = InitLODManager(TRUE)
    /\ InitHistory
    /\ InitOther

\* `this.modelCache.config.maxSize = settings.cacheSize`
SetMaxSize(cacheSize) ==
    /\ cacheSize # modelCache.config.maxSize
    /\ modelCache' = [Begin EXCEPT !.config.maxSize = cacheSize]
    /\ Removed(modelCache')
    /\ lastCall' = NoCall
    /\ UNCHANGED <<calls, now, decision, otherVars, lodManager, lodCalls, lastEval, ticks,
                   debounce>>

EnsureSpaceResumes == \E f \in Suspended : EnsureSpaceStep(f)

NextConfig ==
    \/ \E key \in ConfigKeys : modelCache.totalRequests < MaxConfigRequests /\ CacheGet(key)
    \/ \E f \in Suspended, model \in ConfigModelSizes : LoaderResolve(f, model)
    \/ \E f \in Suspended : LoaderReject(f)
    \/ EnsureSpaceResumes
    \/ \E f \in Suspended : SetInsert(f)
    \/ \E f \in Suspended : SetReturn(f)
    \/ \E key \in ConfigKeys : CacheDelete(key)
    \/ CacheClear
    \/ \E cacheSize \in ConfigMaxSizes : SetMaxSize(cacheSize)

\* an ensureSpace that waits at `await this.evictLeastUsed()` is resumed
SpecConfig == InitConfig /\ [][NextConfig]_vars /\ WF_vars(EnsureSpaceResumes)

\* one evaluation of the loop of ensureSpace(requiredSize): the condition is
\* false, or the cache is cleared and the loop left, or one entry is removed
LoopStep(requiredSize) ==
    LET before == Cardinality(DOMAIN modelCache.cache)
        after == Cardinality(DOMAIN modelCache'.cache)
    IN \/ /\ ~NeedsSpace(modelCache, requiredSize)
          /\ modelCache'.cache = modelCache.cache
       \/ /\ NeedsSpace(modelCache, requiredSize)
          /\ modelCache.accessOrder = <<>>
          /\ modelCache'.cache = EmptyMap
          /\ modelCache'.accessOrder = <<>>
          /\ modelCache'.currentSize = 0
       \/ /\ NeedsSpace(modelCache, requiredSize)
          /\ modelCache.accessOrder # <<>>
          /\ DOMAIN modelCache'.cache \subseteq DOMAIN modelCache.cache
          /\ after = before - 1

\* a call of set for key is inside the loop of ensureSpace
InEnsureSpace(key) == \E f \in Suspended : f.pc = "ensureSpace" /\ f.key = key

\* C39: every call of ensureSpace terminates, whatever the cache holds, the
\* required size and the configuration (maxEntries = 0 and a lowered maxSize
\* included): each evaluation of its loop ends the loop, clears the cache or
\* removes an entry, and a call that is inside the loop leaves it
C39_EnsureSpaceTerminates ==
    /\ [][\A f \in Suspended :
             /\ EnsureSpaceStep(f) => LoopStep(f.size)
             /\ \A model \in ModelSizes :
                   LoaderResolve(f, model) /\ ~TooLarge(modelCache, model)
                      => LoopStep(model)]_vars
    /\ \A key \in CacheKeys : InEnsureSpace(key) ~> ~InEnsureSpace(key)

\* a call waits inside the loop of a cache that may hold no entry
C39_Witness ==
    /\ modelCache.config.maxEntries = 0
    /\ \E f \in Suspended : f.pc = "ensureSpace"

\* a call waits inside the loop after maxSize was lowered below what is stored
C39_Lowered ==
    /\ \E key \in DOMAIN modelCache.cache :
          2 * modelCache.cache[key].size > modelCache.config.maxSize
    /\ \E f \in Suspended : f.pc = "ensureSpace"

-----------------------------------------------------------------------------
(* The LODManager with its cache.  SpecLOD is a manager constructed with   *)
(* autoOptimize: false, which sets no timer                                *)

PathSets == {{"low", "medium", "high"}, {"medium", "high"}, {}}
Elements == {NoElement, NewElement}
CameraData == {[distance |-> 0, position |-> NoPosition],
               [distance |-> 3, position |-> 3],
               [distance |-> 8, position |-> 8],
               [distance |-> 9, position |-> 9]}
Metrics == {[fps |-> fps, memory |-> memory] : fps \in {20, 30}, memory \in {50, 90}}
TimerCameraData == {[distance |-> 3, position |-> 3], [distance |-> 9, position |-> 9]}
TimeSteps == {500}
LodModelSizes == {1}

\* registerModel(entityId, modelPaths, {preload, element}) for a new asset
RegisterModel(e, modelPaths, preload, element) ==
    /\ lodCalls < MaxLodCalls
    /\ e \notin DOMAIN lodManager.activeModels
    /\ lodCalls' = lodCalls + 1
    /\ LET r == registerModel(World(Begin, BeginLod), NewCtx("register", e),
                              modelPaths, preload, element)
       IN Outcome(r, NoFrame) /\ Scheduled(r)
    /\ UNCHANGED <<now, decision, pureVars, lastEval, ticks>>

\* updateModelLOD(entityId, cameraData), as the render loop calls it
UpdateModelLOD(e, cameraData) ==
    /\ lodCalls < MaxLodCalls
    /\ lodCalls' = lodCalls + 1
    /\ lastEval' = IF e \in DOMAIN lodManager.activeModels
                   THEN MapSet(lastEval, e, cameraData) ELSE lastEval
    /\ LET r == updateModelLOD(World(Begin, BeginLod), NewCtx("update", e), cameraData)
       IN Outcome(r, NoFrame) /\ Scheduled(r)
    /\ UNCHANGED <<now, decision, pureVars, ticks>>

\* unloadModel(entityId)
UnloadModel(e) ==
    /\ lodCalls < MaxLodCalls
    /\ lodCalls' = lodCalls + 1
    /\ lodManager' = unloadModel(BeginLod, e)
    /\ lastCall' = [ctx |-> [NewCtx("unload", e) EXCEPT
                                !.prev = IF e \in DOMAIN lodManager.activeModels
                                         THEN lodManager.activeModels[e].currentQuality
                                         ELSE "none"],
                    outcome |-> "resolved"]
    /\ UNCHANGED <<modelCache, calls, recency, insertOrder, evictedFrom, now, decision, otherVars,
                   lastEval, ticks, debounce>>

\* time passes; a pending timer fires when its delay has elapsed
Advance(dt) ==
    /\ ticks < MaxTicks
    /\ lodManager.optimizationTimeout.pending =>
          now + dt <= lodManager.optimizationTimeout.deadline
    /\ now' = now + dt
    /\ ticks' = ticks + 1
    /\ lastCall' = NoCall
    /\ UNCHANGED <<modelCache, calls, recency, insertOrder, evictedFrom, decision, otherVars,
                   lodManager, lodCalls, lastEval, debounce>>

\* the callback of scheduleOptimization's timer: optimizeForPerformance()
TimerFire(metrics) ==
    /\ lodManager.optimizationTimeout.pending
    /\ now = lodManager.optimizationTimeout.deadline
    /\ debounce' = [debounce EXCEPT !.calls = 0, !.burst = debounce.calls]
    /\ LET m0 == [BeginLod EXCEPT !.optimizationTimeout = NoTimeout]
           r == optimizeForPerformance(World(Begin, m0), NewCtx("optimize", "none"),
                                       metrics)
       IN Outcome(r, NoFrame)
    /\ UNCHANGED <<now, decision, pureVars, lodCalls, lastEval, ticks>>

InitLOD ==
    /\ modelCache = InitCache
    /\ calls = EmptyBag
    /\ now = 0
    /\ decision = NoDecision
    /\ lodManager = InitLODManager(FALSE)
    /\ InitHistory
    /\ InitOther

\* Events, timers and the callbacks of the GLTFLoader are tasks: a task starts
\* when the continuations made ready by the previous one have all run
TaskCanStart == \A f \in Suspended : f.pc = "loading"

NextLOD ==
    \/ \E e \in Entities, modelPaths \in PathSets, preload \in BOOLEAN, element \in Elements :
          TaskCanStart /\ RegisterModel(e, modelPaths, preload, element)
    \/ \E e \in Entities, cameraData \in CameraData :
          TaskCanStart /\ UpdateModelLOD(e, cameraData)
    \/ \E e \in Entities : TaskCanStart /\ UnloadModel(e)
    \/ \E f \in Suspended, model \in LodModelSizes :
          TaskCanStart /\ LoaderResolve(f, model)
    \/ \E f \in Suspended : TaskCanStart /\ LoaderReject(f)
    \/ \E f \in Suspended : EnsureSpaceStep(f)
    \/ \E f \in Suspended : SetInsert(f)
    \/ \E f \in Suspended : SetReturn(f)

SpecLOD == InitLOD /\ [][NextLOD]_vars

-----------------------------------------------------------------------------
(* The debounce timer: a manager with autoOptimize (the default), one asset *)
(* with all three tiers, the render loop's updates and the clock           *)

InitTimer ==
    /\ modelCache = InitCache
    /\ calls = EmptyBag
    /\ now = 0
    /\ decision = NoDecision
    /\ lodManager = InitLODManager(TRUE)
    /\ InitHistory
    /\ InitOther

NextTimer ==
    \/ \E e \in Entities :
          /\ TaskCanStart /\ lodCalls < MaxTimerCalls
          /\ RegisterModel(e, Qualities, FALSE, NewElement)
    \/ \E e \in Entities, cameraData \in TimerCameraData :
          /\ TaskCanStart /\ lodCalls < MaxTimerCalls
          /\ UpdateModelLOD(e, cameraData)
    \/ \E dt \in TimeSteps : TaskCanStart /\ Advance(dt)
    \/ \E metrics \in Metrics : TaskCanStart /\ TimerFire(metrics)
    \/ \E f \in Suspended, model \in LodModelSizes :
          TaskCanStart /\ LoaderResolve(f, model)
    \/ \E f \in Suspended : TaskCanStart /\ LoaderReject(f)
    \/ \E f \in Suspended : EnsureSpaceStep(f)
    \/ \E f \in Suspended : SetInsert(f)
    \/ \E f \in Suspended : SetReturn(f)

SpecTimer == InitTimer /\ [][NextTimer]_vars


-----------------------------------------------------------------------------
(* Properties of the LODManager *)

\* C6: an update that requested high on an asset with all three tiers, whose
\* loads failed at high and at medium and at no other tier, has attempted
\* exactly high, medium, low in this order and leaves the asset at low, loaded
C6_FallbackChain ==
    \A e \in DOMAIN lodManager.activeModels :
        ( /\ lastCall.ctx.op = "update"
          /\ lastCall.ctx.entity = e
          /\ lastCall.ctx.requested = "high"
          /\ lodManager.activeModels[e].paths = Qualities
          /\ lastCall.ctx.failed = <<"high", "medium">> )
        => /\ lastCall.ctx.attempts = <<"high", "medium", "low">>
           /\ lodManager.activeModels[e].currentQuality = "low"
           /\ lodManager.activeModels[e].isLoaded

C6_Witness ==
    /\ lastCall.ctx.op = "update"
    /\ lastCall.ctx.requested = "high"
    /\ lastCall.ctx.failed = <<"high", "medium">>
    /\ lastCall.ctx.attempts = <<"high", "medium", "low">>
    /\ lodManager.activeModels[lastCall.ctx.entity].currentQuality = "low"

\* C7: an updateModelLOD call whose transition failed down to low, the last
\* tier, reports an error to its caller
C7_TerminalFailureReported ==
    ( /\ lastCall.ctx.op = "update"
      /\ lastCall.ctx.failed # <<>>
      /\ lastCall.ctx.failed[Len(lastCall.ctx.failed)] = "low" )
    => lastCall.outcome = "rejected"

\* C9: the current quality of a registered asset, when set, is the one the
\* decision rule gives for the distance of the asset's last evaluation
C9_QualityMatchesLastEvaluation ==
    \A e \in DOMAIN lodManager.activeModels :
        LET config == lodManager.activeModels[e] IN
        (config.currentQuality # "none" /\ e \in DOMAIN lastEval) =>
            LET d == lastEval[e].distance
                near == config.lodDistances.near
                medium == config.lodDistances.medium
            IN /\ (config.currentQuality = "high") = (d <= near)
               /\ (config.currentQuality = "medium") = (near < d /\ d <= medium)
               /\ (config.currentQuality = "low") = (d > medium)

\* what a caller can observe of the manager: the registry with each asset's
\* flags, and the counters
Observable(m) ==
    [registry |-> [e \in DOMAIN m.activeModels |->
                      [paths |-> m.activeModels[e].paths,
                       lodDistances |-> m.activeModels[e].lodDistances,
                       currentQuality |-> m.activeModels[e].currentQuality,
                       isLoaded |-> m.activeModels[e].isLoaded,
                       isVisible |-> m.activeModels[e].isVisible,
                       lastUpdate |-> m.activeModels[e].lastUpdate]],
     order |-> m.order,
     stats |-> m.stats,
     isOptimizing |-> m.isOptimizing]

Unloaded(m, e) ==
    e \in DOMAIN m.activeModels =>
        ~m.activeModels[e].isLoaded /\ m.activeModels[e].currentQuality = "none"

-----------------------------------------------------------------------------
(* Properties of the debounce timer *)

TimerFired == debounce.burst = 0 /\ debounce'.burst > 0

\* C5: the scheduleOptimization calls made while a timer is pending leave one
\* pending timer, due one debounce delay after the latest call; it is removed
\* only by firing, it fires at that time and not later, and the firing starts
\* optimizeForPerformance once for all the calls of the burst
C5_Debounce ==
    [][ /\ debounce'.calls >= 1 =>
              /\ lodManager'.optimizationTimeout.pending
              /\ lodManager'.optimizationTimeout.deadline = debounce'.last + DebounceDelay
              /\ now' <= debounce'.last + DebounceDelay
        /\ (lodManager.optimizationTimeout.pending
              /\ ~lodManager'.optimizationTimeout.pending) => TimerFired
        /\ TimerFired =>
              /\ debounce.calls >= 1
              /\ debounce'.calls = 0
              /\ now = debounce.last + DebounceDelay
              /\ ~lodManager'.optimizationTimeout.pending
              /\ lodManager'.stats.optimizationRuns <= lodManager.stats.optimizationRuns + 1
              /\ ~lodManager.isOptimizing =>
                    lodManager'.stats.optimizationRuns = lodManager.stats.optimizationRuns + 1
      ]_vars

C5_Witness ==
    /\ debounce.burst >= 2
    /\ debounce.first < debounce.last
    /\ now = debounce.last + DebounceDelay
    /\ debounce.calls = 0
    /\ lodManager.stats.optimizationRuns = 1
    /\ ~lodManager.optimizationTimeout.pending

-----------------------------------------------------------------------------
(* Registration *)

\* C12: registerModel with a modelPaths object that has no entries is refused:
\* the registry never holds an asset without sources
C12_EmptySourcesRejected ==
    \A e \in DOMAIN lodManager.activeModels : lodManager.activeModels[e].paths # {}

-----------------------------------------------------------------------------
(* Eviction events of the cache *)

\* C15: every entry that leaves the cache, by LRU eviction, delete or clear,
\* has an eviction event with its key and a reason, emitted while the entry
\* was still stored
C15_RemovalAnnouncedBefore ==
    [][\A key \in DOMAIN modelCache.cache \ DOMAIN modelCache'.cache :
          \E i \in DOMAIN modelCache'.emitted :
             LET ev == modelCache'.emitted[i]
             IN /\ ev.type = "eviction"
                /\ ev.key = key
                /\ ev.reason \in {"lru", "manual"}
                /\ ev.stored]_vars

-----------------------------------------------------------------------------
(* Entries too large to cache *)

\* the call whose set has just refused its model: a call that has newly
\* reached the end of set with a size above half of maxSize
Refused(g) ==
    /\ g.pc = "setDone"
    /\ 2 * g.size > modelCache.config.maxSize
    /\ CopiesIn(g, calls') > CopiesIn(g, calls)

\* C16: no stored entry is larger than half of maxSize, and the set of a
\* larger model leaves the entries, currentSize and accessOrder as they were
\* and evicts nothing
C16_TooLargeNeverStored ==
    [][/\ \A key \in DOMAIN modelCache'.cache :
             2 * modelCache'.cache[key].size <= modelCache'.config.maxSize
       /\ (\E g \in Suspended' : Refused(g)) =>
             /\ modelCache'.cache = modelCache.cache
             /\ modelCache'.currentSize = modelCache.currentSize
             /\ modelCache'.accessOrder = modelCache.accessOrder
             /\ modelCache'.emitted = <<>>]_vars

\* a set has refused a model while other entries were stored
C16_Witness ==
    /\ \E g \in Suspended : g.pc = "setDone" /\ 2 * g.size > modelCache.config.maxSize
    /\ modelCache.cache # EmptyMap
    /\ modelCache.emitted = <<>>

-----------------------------------------------------------------------------
(* A loader that fails *)

\* C17: when the loader of a get that missed fails, get throws to its caller
\* after emitting one error event for its key, and neither the miss nor the
\* failure stores anything: the entries, currentSize and accessOrder are left
\* as they were
C17_FailedLoadStoresNothing ==
    [][(\/ lastCall'.outcome = "rejected"
        \/ \E g \in Suspended' : g.pc = "loading" /\ CopiesIn(g, calls') > CopiesIn(g, calls)) =>
          /\ modelCache'.cache = modelCache.cache
          /\ modelCache'.currentSize = modelCache.currentSize
          /\ modelCache'.accessOrder = modelCache.accessOrder
          /\ lastCall'.outcome = "rejected" =>
                \E f \in Suspended :
                   /\ f.pc = "loading"
                   /\ calls' = Leave(f)
                   /\ modelCache'.emitted = <<[type |-> "error", key |-> f.key]>>]_vars

\* a get has thrown while other entries were stored
C17_Witness ==
    /\ lastCall.outcome = "rejected"
    /\ modelCache.cache # EmptyMap
    /\ \E i \in DOMAIN modelCache.emitted : modelCache.emitted[i].type = "error"

-----------------------------------------------------------------------------
(* Order of the qualityChange events *)

QualityChanges(m) ==
    LET IsChange(ev) == ev.type = "qualityChange" IN SelectSeq(m.emitted, IsChange)

\* the qualityChange events emitted in this step: each comes with an
\* increment of stats.qualityChanges
QualityChangesNow ==
    IF lodManager'.stats.qualityChanges = lodManager.stats.qualityChanges THEN <<>>
    ELSE QualityChanges(lodManager')

\* C14: a qualityChange event of an asset is the one of the oldest transition
\* of that asset still in flight, if any is: no transition requested later
\* emits its event before one requested earlier
C14_EventsInRequestOrder ==
    [][\A i \in DOMAIN QualityChangesNow :
          LET ev == QualityChangesNow[i]
              OfAsset(p) == p[1] = ev.entityId
              older == SelectSeq(pendingTransitions, OfAsset)
          IN older = <<>> \/ older[1][2] = ev.newQuality]_vars

\* C34: a qualityChange event carries a new quality that differs from its
\* previous quality and from the quality the asset had just before the event,
\* and the counter of quality changes grows only in a step that changes the
\* current quality of an asset
C34_EventsAreChanges ==
    [][LET events == QualityChangesNow IN
       /\ \A i \in DOMAIN events : events[i].newQuality # events[i].previousQuality
       /\ events # <<>> =>
             events[1].newQuality # lodManager.activeModels[events[1].entityId].currentQuality
       /\ lodManager'.stats.qualityChanges # lodManager.stats.qualityChanges =>
             \E e \in DOMAIN lodManager.activeModels :
                lodManager'.activeModels[e].currentQuality
                   # lodManager.activeModels[e].currentQuality]_vars

\* every tier the transition has tried has failed
AllFailed(ctx) ==
    ctx.op = "update" /\ ctx.failed # <<>> /\ ctx.failed = ctx.attempts

\* this step belongs to a transition in which no load has succeeded: it
\* starts the load of a tier, the tiers tried before having failed, or it
\* ends the transition after its last load has failed
FailingStep(e) ==
    \/ \E g \in MovedTo : /\ g.pc = "loading" /\ g.ctx.op = "update" /\ g.ctx.entity = e
                          /\ g.ctx.attempts = Append(g.ctx.failed, g.ctx.target)
    \/ lastCall'.ctx.entity = e /\ AllFailed(lastCall'.ctx)

\* C35: the steps of a transition whose loads fail at every tier tried leave
\* the current quality, the loaded flag and the counter of quality changes
\* as they are and emit no qualityChange event
C35_FailedTransitionChangesNothing ==
    [][\A e \in DOMAIN lodManager.activeModels :
          FailingStep(e) =>
             /\ lodManager'.activeModels[e].currentQuality
                   = lodManager.activeModels[e].currentQuality
             /\ lodManager'.activeModels[e].isLoaded = lodManager.activeModels[e].isLoaded
             /\ lodManager'.stats.qualityChanges = lodManager.stats.qualityChanges
             /\ QualityChangesNow = <<>>]_vars

\* C35 witness: a transition has ended with its only load failed while the
\* asset was loaded by another transition, and the asset is still loaded
C35_Witness ==
    /\ AllFailed(lastCall.ctx)
    /\ lastCall.ctx.entity \in DOMAIN lodManager.activeModels
    /\ lodManager.activeModels[lastCall.ctx.entity].isLoaded
    /\ lodManager.activeModels[lastCall.ctx.entity].currentQuality
          \notin Range(lastCall.ctx.failed)
    /\ lodManager.stats.qualityChanges = 1

\* C35 witness of the whole chain: the loads of high, medium and low have failed
AllTiersFailed ==
    /\ AllFailed(lastCall.ctx)
    /\ lastCall.ctx.failed = <<"high", "medium", "low">>

-----------------------------------------------------------------------------
(* The re-entrancy guard of the optimization pass: in SpecOptimize the     *)
(* owner of a manager without automatic optimisation calls                 *)
(* optimizeForPerformance itself (ModelOptimizationSystem.optimizeSystem)  *)

\* optimizeForPerformance() called directly
OptimizeForPerformance(metrics) ==
    /\ runs < MaxRuns
    /\ runs' = runs + 1
    /\ LET r == optimizeForPerformance(World(Begin, BeginLod), NewCtx("optimize", "none"),
                                       metrics)
       IN Outcome(r, NoFrame)
    /\ UNCHANGED <<now, decision, severity, notifyVars, monitor, system, laterVars, lodCalls, lastEval,
                   ticks, debounce>>

NextOptimize ==
    \/ \E e \in Entities :
          /\ TaskCanStart /\ lodCalls < MaxTimerCalls
          /\ RegisterModel(e, Qualities, FALSE, NewElement)
    \/ \E e \in Entities, cameraData \in TimerCameraData :
          /\ TaskCanStart /\ lodCalls < MaxTimerCalls
          /\ UpdateModelLOD(e, cameraData)
    \/ \E metrics \in Metrics : TaskCanStart /\ OptimizeForPerformance(metrics)
    \/ \E f \in Suspended, model \in LodModelSizes :
          TaskCanStart /\ LoaderResolve(f, model)
    \/ \E f \in Suspended : TaskCanStart /\ LoaderReject(f)
    \/ \E f \in Suspended : EnsureSpaceStep(f)
    \/ \E f \in Suspended : SetInsert(f)
    \/ \E f \in Suspended : SetReturn(f)

SpecOptimize == InitLOD /\ [][NextOptimize]_vars

\* a pass is in progress: it has set isOptimizing and is suspended on a load
PassSuspended == \E f \in Suspended : f.ctx.op = "optimize"
\* this step is a call of optimizeForPerformance
RunCalled == runs' = runs + 1

\* C13: at most one pass is in progress at any time, and a call of
\* optimizeForPerformance made while an earlier pass is suspended on a load
\* emits no event, changes no asset, starts no load and leaves the counters
\* alone
C13_ReentrantRunIsNoOp ==
    [][/\ Cardinality({f \in Suspended' : f.ctx.op = "optimize"}) <= 1
       /\ (RunCalled /\ PassSuspended) =>
             /\ lodManager'.emitted = <<>>
             /\ lodManager'.activeModels = lodManager.activeModels
             /\ lodManager'.stats = lodManager.stats
             /\ lodManager'.isOptimizing
             /\ modelCache' = Begin
             /\ calls' = calls]_vars

\* a call has returned at once while a pass was suspended
C13_Witness ==
    /\ lastCall.ctx.op = "optimize"
    /\ lastCall.outcome = "resolved"
    /\ lodManager.isOptimizing
    /\ PassSuspended

-----------------------------------------------------------------------------
(* The callback registries on their own: in SpecNotify subscribers register *)
(* and leave, and each component notifies the callbacks of an event        *)

MaxSubscriptions == 3
\* the event names a caller passes: those of the component and an unknown one
EventNames(source) == DOMAIN registry[source] \cup {"other"}

NotifyFrame ==
    UNCHANGED <<modelCache, calls, recency, insertOrder, evictedFrom, now, decision,
                lodVars, severity, runs, pendingTransitions, monitor, system, laterVars>>

\* modelCache.on(event, callback), lodManager.on(event, callback)
On(source, event, callback) ==
    /\ subscriptions < MaxSubscriptions
    /\ subscriptions' = subscriptions + 1
    /\ registry' = [registry EXCEPT ![source] = on(@, event, callback)]
    /\ notification' = NoNotification
    /\ NotifyFrame

\* performanceMonitor.onPerformanceIssue(callback)
OnPerformanceIssue(callback) ==
    /\ subscriptions < MaxSubscriptions
    /\ subscriptions' = subscriptions + 1
    /\ registry' = [registry EXCEPT !.monitor = SetAdd(@, callback)]
    /\ notification' = NoNotification
    /\ NotifyFrame

\* modelCache.off(event, callback), lodManager.off(event, callback)
Off(source, event, callback) ==
    /\ registry' = [registry EXCEPT ![source] = off(@, event, callback)]
    /\ notification' = NoNotification
    /\ UNCHANGED subscriptions
    /\ NotifyFrame

\* performanceMonitor.removePerformanceCallback(callback)
RemovePerformanceCallback(callback) ==
    /\ registry' = [registry EXCEPT !.monitor = Without(@, callback)]
    /\ notification' = NoNotification
    /\ UNCHANGED subscriptions
    /\ NotifyFrame

\* an operation of the cache or of the manager emits event
NotifyCallbacks(source, event) ==
    /\ notification' = Notified(source, event, notifyCallbacks(registry[source], event))
    /\ UNCHANGED <<registry, subscriptions>>
    /\ NotifyFrame

\* checkPerformanceIssues has found issues
NotifyPerformanceIssues ==
    /\ notification' = Notified("monitor", "issue", notifyPerformanceIssues(registry.monitor))
    /\ UNCHANGED <<registry, subscriptions>>
    /\ NotifyFrame

NextNotify ==
    \/ \E source \in {"cache", "lod"} : \E event \in EventNames(source), callback \in Handlers :
          On(source, event, callback)
    \/ \E callback \in Handlers : OnPerformanceIssue(callback)
    \/ \E source \in {"cache", "lod"} : \E event \in DOMAIN registry[source] :
          \E callback \in Range(registry[source][event]) : Off(source, event, callback)
    \/ \E callback \in Range(registry.monitor) : RemovePerformanceCallback(callback)
    \/ \E source \in {"cache", "lod"} : \E event \in EventNames(source) :
          NotifyCallbacks(source, event)
    \/ NotifyPerformanceIssues

SpecNotify == Init /\ [][NextNotify]_vars

\* the callbacks registered for the event of the last notification
RegisteredFor(n) ==
    IF n.source = "monitor" THEN registry.monitor
    ELSE IF n.event \in DOMAIN registry[n.source] THEN registry[n.source][n.event]
    ELSE <<>>

\* C18: in each of the three registries a notification invokes every
\* registered callback of its event once, in registration order, whether or
\* not some of them throw, and returns normally to the code that emitted it
C18_CallbackIsolation ==
    notification.source # "none" =>
        /\ notification.invoked = RegisteredFor(notification)
        /\ notification.completed

\* a callback that throws was followed by another one that was still invoked
C18_Witness ==
    /\ notification.source = "monitor"
    /\ Len(notification.invoked) = 3
    /\ notification.logged = <<notification.invoked[1]>>
    /\ notification.completed

-----------------------------------------------------------------------------
(* The metrics of the PerformanceMonitor on their own: in SpecMetrics the  *)
(* monitor samples frames and memory, and a caller writes to the copy it   *)
(* got from getCurrentMetrics or from an issue notification                *)

MaxObjects == 3
MaxWrites == 2
FrameSamples == {[fps |-> 30, renderTime |-> 33], [fps |-> 20, renderTime |-> 50]}
MemorySamples == {[used |-> 1, total |-> 2, percentage |-> 50],
                  [used |-> 2, total |-> 2, percentage |-> 100]}
OwnFields == {"fps", "renderTime"}
NestedFields == {"used", "total", "percentage"}
WrittenValues == {7}

MetricsFrame ==
    UNCHANGED <<modelCache, calls, recency, insertOrder, evictedFrom, now, decision,
                lodVars, severity, runs, pendingTransitions, notifyVars, system, laterVars>>

MonitorLoop(frame) ==
    /\ monitor' = monitorLoop(monitor, frame, registry.monitor)
    /\ MetricsFrame

UpdateMemoryMetrics(memoryInfo) ==
    /\ Len(monitor.heap) < MaxObjects
    /\ monitor' = updateMemoryMetrics(monitor, memoryInfo)
    /\ MetricsFrame

GetCurrentMetrics ==
    /\ monitor' = [monitor EXCEPT !.snapshot = [taken |-> TRUE, via |-> "getCurrentMetrics",
                                                metrics |-> getCurrentMetrics(monitor)]]
    /\ MetricsFrame

\* the holder of a copy assigns to one of its properties, own or nested
CallerWrites(field, value) ==
    /\ monitor.snapshot.taken
    /\ monitor.writes < MaxWrites
    /\ monitor' = IF field \in OwnFields
                  THEN [monitor EXCEPT !.writes = @ + 1,
                                       !.snapshot.metrics[field] = value]
                  ELSE [monitor EXCEPT !.writes = @ + 1,
                                       !.heap[monitor.snapshot.metrics.memoryUsage][field] = value]
    /\ MetricsFrame

NextMetrics ==
    \/ \E frame \in FrameSamples : MonitorLoop(frame)
    \/ \E memoryInfo \in MemorySamples : UpdateMemoryMetrics(memoryInfo)
    \/ GetCurrentMetrics
    \/ \E field \in OwnFields \cup NestedFields, value \in WrittenValues :
          CallerWrites(field, value)

\* a monitor with one subscriber of its issue notifications
InitMetrics ==
    /\ modelCache = InitCache
    /\ calls = EmptyBag
    /\ now = 0
    /\ decision = NoDecision
    /\ lodManager = InitLODManager(TRUE)
    /\ InitHistory
    /\ severity = NoSeverity
    /\ runs = 0
    /\ pendingTransitions = <<>>
    /\ registry = [InitRegistry EXCEPT !.monitor = <<"h1">>]
    /\ subscriptions = 1
    /\ notification = NoNotification
    /\ monitor = InitMonitor
    /\ system = InitSystem
    /\ InitLater

SpecMetrics == InitMetrics /\ [][NextMetrics]_vars

\* C19: an assignment to any property of a copy of the metrics, own or
\* nested, got from getCurrentMetrics or from a notification, leaves the
\* metrics of the observer as they were
C19_SnapshotIsolated ==
    [][monitor'.writes = monitor.writes + 1 => Observed(monitor') = Observed(monitor)]_vars

-----------------------------------------------------------------------------
(* The ModelOptimizationSystem: in SpecSystem assets of type prop are       *)
(* registered, updated and unregistered through the system, whose manager   *)
(* sets no timer                                                            *)

SystemFrame ==
    UNCHANGED <<now, decision, severity, runs, notifyVars, monitor, laterVars, ticks>>

\* ModelOptimizationSystem.registerModel(entityId, modelPaths, {element})
SystemRegisterModel(e, modelPaths, element) ==
    /\ lodCalls < MaxLodCalls
    /\ e \notin DOMAIN lodManager.activeModels
    /\ lodCalls' = lodCalls + 1
    /\ LET r == registerModel(World(Begin, BeginLod), NewCtx("register", e),
                              modelPaths, PropConfig.preload, element)
           typed == [r EXCEPT !.w.m.activeModels[e].lodDistances = PropConfig.lodDistances]
       IN Outcome(typed, NoFrame) /\ Scheduled(typed)
    /\ system' = [system EXCEPT !.registeredModels = @ \cup {e},
                                !.last = [op |-> "register", entity |-> e]]
    /\ UNCHANGED lastEval
    /\ SystemFrame

\* ModelOptimizationSystem.updateModelLOD(entityId, cameraData)
SystemUpdateModelLOD(e, cameraData) ==
    /\ lodCalls < MaxLodCalls
    /\ lodCalls' = lodCalls + 1
    /\ lastEval' = IF e \in DOMAIN lodManager.activeModels
                   THEN MapSet(lastEval, e, cameraData) ELSE lastEval
    /\ LET r == updateModelLOD(World(Begin, BeginLod), NewCtx("update", e), cameraData)
       IN Outcome(r, NoFrame) /\ Scheduled(r)
    /\ system' = [system EXCEPT !.last = [op |-> "update", entity |-> e]]
    /\ SystemFrame

\* ModelOptimizationSystem.unregisterModel(entityId)
SystemUnregisterModel(e) ==
    /\ lodCalls < MaxLodCalls
    /\ lodCalls' = lodCalls + 1
    /\ lodManager' = unloadModel(BeginLod, e)
    /\ system' = [system EXCEPT !.registeredModels = @ \ {e},
                                !.unregistered = @ \cup {e},
                                !.last = [op |-> "unregister", entity |-> e]]
    /\ lastCall' = [ctx |-> NewCtx("unload", e), outcome |-> "resolved"]
    /\ UNCHANGED <<modelCache, calls, recency, insertOrder, evictedFrom, pendingTransitions,
                   lastEval, debounce>>
    /\ SystemFrame

NextSystem ==
    \/ \E e \in Entities, element \in Elements :
          TaskCanStart /\ SystemRegisterModel(e, Qualities, element)
    \/ \E e \in Entities, cameraData \in CameraData :
          TaskCanStart /\ SystemUpdateModelLOD(e, cameraData)
    \/ \E e \in Entities : TaskCanStart /\ SystemUnregisterModel(e)
    \/ \E f \in Suspended, model \in LodModelSizes :
          TaskCanStart /\ LoaderResolve(f, model)
    \/ \E f \in Suspended : TaskCanStart /\ LoaderReject(f)
    \/ \E f \in Suspended : EnsureSpaceStep(f)
    \/ \E f \in Suspended : SetInsert(f)
    \/ \E f \in Suspended : SetReturn(f)

SpecSystem == InitLOD /\ [][NextSystem]_vars

\* this step is an updateModelLOD call for an asset removed before
UpdateAfterUnregister ==
    /\ lodCalls' = lodCalls + 1
    /\ system'.last.op = "update"
    /\ system'.last.entity \in system.unregistered \ system.registeredModels

\* C20: an updateModelLOD for an id that unregisterModel has removed does
\* nothing: it starts no load, reads nothing from the cache, attaches nothing,
\* emits no event and leaves the asset as unregisterModel left it
C20_UnregisteredIsTerminal ==
    [][UpdateAfterUnregister =>
          /\ calls' = calls
          /\ modelCache' = Begin
          /\ lodManager'.emitted = <<>>
          /\ lodManager'.activeModels = lodManager.activeModels]_vars

-----------------------------------------------------------------------------
(* A display that fails: in SpecDisplay the element of an asset has a      *)
(* method that throws while the manager updates, unloads or cleans up      *)

\* the method of the element that throws, if any
DisplayFailures == {"none", "removeObject3D", "setObject3D", "setAttribute"}

DisplayFrame ==
    UNCHANGED <<now, decision, severity, runs, notifyVars, monitor, system, lowering, issues,
                interrupted, ticks>>

\* updateModelLOD(entityId, cameraData) while the element fails
UpdateModelLODOn(e, cameraData, failure) ==
    /\ lodCalls < MaxLodCalls
    /\ lodCalls' = lodCalls + 1
    /\ lastEval' = IF e \in DOMAIN lodManager.activeModels
                   THEN MapSet(lastEval, e, cameraData) ELSE lastEval
    /\ LET ctx == [NewCtx("update", e) EXCEPT !.display = failure]
           r == updateModelLOD(World(Begin, BeginLod), ctx, cameraData)
       IN Outcome(r, NoFrame) /\ Scheduled(r)
    /\ display' = [op |-> "update", failure |-> failure, thrown |-> FALSE]
    /\ DisplayFrame

\* unloadModel(entityId) while the element fails
UnloadModelOn(e, failure) ==
    /\ lodCalls < MaxLodCalls
    /\ lodCalls' = lodCalls + 1
    /\ LET r == unloadModelOn(BeginLod, e, failure)
       IN /\ lodManager' = r.m
          /\ display' = [op |-> "unload", failure |-> failure, thrown |-> r.thrown]
          /\ lastCall' = [ctx |-> NewCtx("unload", e),
                          outcome |-> IF r.thrown THEN "rejected" ELSE "resolved"]
    /\ UNCHANGED <<modelCache, calls, recency, insertOrder, evictedFrom, pendingTransitions,
                   lastEval, debounce>>
    /\ DisplayFrame

\* cleanup() while the element fails; a manager is cleaned up once
CleanupOn(failure) ==
    /\ lodCalls < MaxLodCalls
    /\ lodCalls' = lodCalls + 1
    /\ lodManager.isInitialized
    /\ LET r == cleanupOn(World(Begin, BeginLod), failure)
       IN /\ modelCache' = r.w.c
          /\ lodManager' = r.w.m
          /\ Removed(r.w.c)
          /\ display' = [op |-> "cleanup", failure |-> failure, thrown |-> r.thrown]
          /\ lastCall' = [ctx |-> NewCtx("cleanup", "none"),
                          outcome |-> IF r.thrown THEN "rejected" ELSE "resolved"]
    /\ UNCHANGED <<calls, pendingTransitions, lastEval, debounce>>
    /\ DisplayFrame

NextDisplay ==
    \/ \E e \in Entities :
          /\ TaskCanStart /\ lodManager.isInitialized
          /\ RegisterModel(e, Qualities, FALSE, NewElement)
    \/ \E e \in Entities, cameraData \in TimerCameraData, failure \in DisplayFailures :
          TaskCanStart /\ UpdateModelLODOn(e, cameraData, failure)
    \/ \E e \in Entities, failure \in DisplayFailures :
          TaskCanStart /\ UnloadModelOn(e, failure)
    \/ \E failure \in DisplayFailures : TaskCanStart /\ CleanupOn(failure)
    \/ \E f \in Suspended, model \in LodModelSizes :
          TaskCanStart /\ LoaderResolve(f, model)
    \/ \E f \in Suspended : TaskCanStart /\ LoaderReject(f)
    \/ \E f \in Suspended : EnsureSpaceStep(f)
    \/ \E f \in Suspended : SetInsert(f)
    \/ \E f \in Suspended : SetReturn(f)

SpecDisplay == InitLOD /\ [][NextDisplay]_vars

\* C21: a method of the element that throws during an update, an unload or
\* cleanup never makes the manager's operation throw to its caller
C21_DisplayFailureContained == ~display.thrown

-----------------------------------------------------------------------------
(* The optimization pass on assets that have been left alone: in SpecPass  *)
(* the owner registers assets with or without preload and element, the     *)
(* render loop updates them, time passes in steps longer than the idle     *)
(* time of applyPerformanceOptimizations, and optimizeForPerformance is    *)
(* called with the metrics of the moment                                   *)

IdleSteps == {MaxIdleTime + 1}

NextPass ==
    \/ \E e \in Entities, preload \in BOOLEAN, element \in Elements :
          /\ TaskCanStart /\ lodCalls < MaxTimerCalls
          /\ RegisterModel(e, Qualities, preload, element)
    \/ \E e \in Entities, cameraData \in TimerCameraData :
          /\ TaskCanStart /\ lodCalls < MaxTimerCalls
          /\ UpdateModelLOD(e, cameraData)
    \/ \E dt \in IdleSteps : TaskCanStart /\ Advance(dt)
    \/ \E metrics \in Metrics : TaskCanStart /\ OptimizeForPerformance(metrics)
    \/ \E f \in Suspended, model \in LodModelSizes :
          TaskCanStart /\ LoaderResolve(f, model)
    \/ \E f \in Suspended : TaskCanStart /\ LoaderReject(f)
    \/ \E f \in Suspended : EnsureSpaceStep(f)
    \/ \E f \in Suspended : SetInsert(f)
    \/ \E f \in Suspended : SetReturn(f)

SpecPass == InitLOD /\ [][NextPass]_vars

\* this step is the callback in which a pass ends
PassEnds == \E i \in DOMAIN lodManager'.emitted :
               lodManager'.emitted[i].type = "optimizationEnd"

\* C22: the pass that finds the frame rate low lowers the visible and loaded
\* assets by one quality step and unloads no asset: every asset that was
\* loaded before the callback in which a pass ends is loaded after it
C22_PassUnloadsNothing ==
    [][PassEnds =>
          \A e \in DOMAIN lodManager.activeModels :
             lodManager.activeModels[e].isLoaded => lodManager'.activeModels[e].isLoaded]_vars

\* the keys removed by ModelCache.delete in the callback that left the cache as c
ManualEvictions(c) ==
    {c.emitted[i].key : i \in {j \in DOMAIN c.emitted :
        c.emitted[j].type = "eviction" /\ c.emitted[j].reason = "manual"}}

\* this step's callback has changed no quality, so it has accessed no entry
NoQualityChange == \A i \in DOMAIN lodManager'.emitted :
                      lodManager'.emitted[i].type # "qualityChange"

\* x comes before y in the sequence s
Before(s, x, y) == \E i, j \in DOMAIN s : i < j /\ s[i] = x /\ s[j] = y

\* C23: the entries removed by the memory cleanup of a pass are the least
\* recently used ones: every entry that stays was accessed after every entry
\* removed, and with memory above 80% a quarter of the stored entries,
\* rounded up, is removed
C23_CleanupRemovesLeastRecent ==
    [][(PassEnds /\ NoQualityChange) =>
          LET removed == ManualEvictions(modelCache')
              stored == DOMAIN modelCache.cache
          IN /\ \A key \in removed, kept \in DOMAIN modelCache'.cache :
                   Before(recency, key, kept)
             /\ lastCall'.ctx.memory =>
                   Cardinality(removed) = (Cardinality(stored) + 3) \div 4]_vars

-----------------------------------------------------------------------------
(* reduce_active_models: in SpecReduce the manager holds up to MaxAssets   *)
(* registered assets, each loaded or not and with a priority given at      *)
(* registration, and the recommendation is applied to it                   *)

MaxAssets == 4
MaxPriority == 3
AssetIds == 1..MaxAssets
Priorities == 1..MaxPriority

\* a registered asset: as registerModel leaves it, or loaded at Low by an update
AssetConfigs ==
    {[paths |-> Qualities,
      lodDistances |-> DefaultDistances,
      currentQuality |-> IF isLoaded THEN "low" ELSE "none",
      isLoaded |-> isLoaded,
      isVisible |-> isLoaded,
      lastUpdate |-> 0,
      priority |-> priority,
      preload |-> FALSE,
      element |-> IF isLoaded THEN applyModelToElement(NewElement, "low") ELSE NewElement] :
        isLoaded \in BOOLEAN, priority \in Priorities}

InitReduce ==
    /\ modelCache = InitCache
    /\ calls = EmptyBag
    /\ now = 0
    /\ decision = NoDecision
    /\ \E n \in 0..MaxAssets : \E configs \in [1..n -> AssetConfigs] :
          lodManager = [InitLODManager(FALSE) EXCEPT
                           !.activeModels = configs,
                           !.order = [i \in 1..n |-> i],
                           !.stats.modelsRegistered = n]
    /\ InitHistory
    /\ InitOther

\* handlePerformanceIssue with the recommendation 'reduce_active_models'
ReduceActiveModels ==
    /\ lodCalls < MaxTimerCalls
    /\ lodCalls' = lodCalls + 1
    /\ lodManager' = reduceActiveModels(BeginLod)
    /\ lastCall' = [ctx |-> NewCtx("reduceActive", "none"), outcome |-> "resolved"]
    /\ UNCHANGED <<modelCache, calls, recency, insertOrder, evictedFrom, now, decision,
                   otherVars, lastEval, ticks, debounce>>

NextReduce == ReduceActiveModels

SpecReduce == InitReduce /\ [][NextReduce]_vars

LoadedAssets(m) == {id \in DOMAIN m.activeModels : m.activeModels[id].isLoaded}

-----------------------------------------------------------------------------
(* The recommendations of a performance notification: in SpecRecommend the *)
(* render loop brings an asset to High or Medium, then the monitor's       *)
(* notification is handled.  While a reduceAllModelQuality is suspended    *)
(* the render loop and the monitor are quiet, so that what the downgrade   *)
(* does is seen on its own                                                 *)

\* what generateRecommendations produces, less the names that
\* handlePerformanceIssue ignores
RecommendationLists ==
    {<<"reduce_model_quality", "reduce_active_models">>,
     <<"reduce_model_quality", "reduce_active_models", "clear_cache">>,
     <<"clear_cache">>}

RecommendCameraData == {cameraData \in CameraData : cameraData.distance \in {3, 8}}

ReducePending == \E f \in Suspended : f.ctx.op = "reduce"

CurrentQualities(m) == [e \in DOMAIN m.activeModels |-> m.activeModels[e].currentQuality]

HandlePerformanceIssue(recommendations) ==
    /\ lodCalls < MaxLodCalls
    /\ lodCalls' = lodCalls + 1
    /\ lowering' = IF Head(recommendations) = "reduce_model_quality"
                   THEN CurrentQualities(lodManager) ELSE EmptyMap
    /\ LET r == handlePerformanceIssue(World(Begin, BeginLod), NewCtx("reduce", "none"),
                                       recommendations)
       IN Outcome(r, NoFrame)
    /\ UNCHANGED <<now, decision, severity, runs, notifyVars, monitor, system, display,
                   issues, interrupted, lastEval, ticks, debounce>>

NextRecommend ==
    \/ \E e \in Entities :
          /\ TaskCanStart /\ ~ReducePending
          /\ RegisterModel(e, Qualities, FALSE, NewElement)
    \/ \E e \in Entities, cameraData \in RecommendCameraData :
          /\ TaskCanStart /\ ~ReducePending
          /\ UpdateModelLOD(e, cameraData)
    \/ \E recommendations \in RecommendationLists :
          /\ TaskCanStart /\ ~ReducePending
          /\ HandlePerformanceIssue(recommendations)
    \/ \E f \in Suspended, model \in LodModelSizes :
          TaskCanStart /\ LoaderResolve(f, model)
    \/ \E f \in Suspended : TaskCanStart /\ LoaderReject(f)
    \/ \E f \in Suspended : EnsureSpaceStep(f)
    \/ \E f \in Suspended : SetInsert(f)
    \/ \E f \in Suspended : SetReturn(f)

SpecRecommend == InitLOD /\ [][NextRecommend]_vars

OneStepLower(quality) ==
    IF quality = "high" THEN "medium"
    ELSE IF quality = "medium" THEN "low" ELSE quality

\* C25: when the reduceAllModelQuality started by a notification returns,
\* every asset that was at High or Medium when it was started is exactly one
\* quality step lower, whether its loads succeeded or failed and whatever the
\* other recommendations of the notification did in between
C25_ReduceLowersOneStep ==
    [][(lastCall'.ctx.op = "reduce" /\ lastCall'.outcome = "resolved") =>
          \A e \in DOMAIN lowering' :
             lowering'[e] \in {"high", "medium"} =>
                lodManager'.activeModels[e].currentQuality = OneStepLower(lowering'[e])]_vars

-----------------------------------------------------------------------------
(* The events that bracket a pass, as a subscriber receives them: in       *)
(* SpecBracket callbacks are registered for optimizationStart and          *)
(* optimizationEnd before the passes are run                               *)

\* on('optimizationEnd', once(() => manager.optimizeForPerformance())) if
\* rerun, then on('optimizationStart', observer), on('optimizationEnd', observer),
\* while no pass is in progress
Subscribe(rerun) ==
    /\ ~lodManager.observed
    /\ ~lodManager.isOptimizing
    /\ lodManager' = [BeginLod EXCEPT !.rerun = rerun, !.observed = TRUE]
    /\ lastCall' = NoCall
    /\ UNCHANGED <<modelCache, calls, recency, insertOrder, evictedFrom, now, decision,
                   otherVars, lodCalls, lastEval, ticks, debounce>>

NextBracket ==
    \/ \E e \in Entities :
          /\ TaskCanStart /\ lodCalls < MaxTimerCalls
          /\ RegisterModel(e, Qualities, FALSE, NewElement)
    \/ \E e \in Entities, cameraData \in TimerCameraData :
          /\ TaskCanStart /\ lodCalls < MaxTimerCalls
          /\ UpdateModelLOD(e, cameraData)
    \/ \E rerun \in BOOLEAN : TaskCanStart /\ Subscribe(rerun)
    \/ \E metrics \in Metrics : TaskCanStart /\ OptimizeForPerformance(metrics)
    \/ \E f \in Suspended, model \in LodModelSizes :
          TaskCanStart /\ LoaderResolve(f, model)
    \/ \E f \in Suspended : TaskCanStart /\ LoaderReject(f)
    \/ \E f \in Suspended : EnsureSpaceStep(f)
    \/ \E f \in Suspended : SetInsert(f)
    \/ \E f \in Suspended : SetReturn(f)

SpecBracket == InitLOD /\ [][NextBracket]_vars

\* C26: a subscriber of both events receives them in strict alternation,
\* optimizationStart first: no run's start arrives before the end of the run
\* before it has been delivered
C26_StartEndAlternate ==
    \A i \in DOMAIN lodManager.delivered :
        lodManager.delivered[i] = IF i % 2 = 1 THEN "optimizationStart"
                                  ELSE "optimizationEnd"

-----------------------------------------------------------------------------
(* The consecutive-issue counter: in SpecIssues the monitor is started and *)
(* stopped, its loop runs on animation frames, memory is sampled and       *)
(* callbacks are registered and removed                                    *)

MaxChecks == 4

IssuesFrame ==
    UNCHANGED <<modelCache, calls, recency, insertOrder, evictedFrom, now, decision,
                lodVars, severity, runs, pendingTransitions, system, display, lowering,
                interrupted>>

\* monitorLoop() of a monitor that is monitoring: the sample, the check, the
\* notification of the callbacks
LoopBody(pm, frame) ==
    LET m1 == monitorLoop(monitor, SampleOf(pm, monitor, frame), registry.monitor)
        found == HasIssues(m1)
    IN /\ monitor' = m1
       /\ issues' = [checkPerformanceIssues(pm, found) EXCEPT
                        !.sampled = TRUE,
                        !.hasSample = @ \/ pm.sampled,
                        !.checks = @ + 1,
                        !.found = found,
                        !.streak = IF found THEN @ + 1 ELSE 0,
                        !.sinceStart = IF found THEN @ + 1 ELSE 0]
       /\ notification' = IF found
                          THEN Notified("monitor", "issue",
                                        notifyPerformanceIssues(registry.monitor))
                          ELSE NoNotification
       /\ UNCHANGED <<registry, subscriptions>>
       /\ IssuesFrame

\* startMonitoring(): nothing if already monitoring, else the counter is
\* reset and the loop runs for the first time
StartMonitoring(frame) ==
    /\ issues.checks < MaxChecks
    /\ ~issues.isMonitoring
    /\ LoopBody([issues EXCEPT !.isMonitoring = TRUE, !.consecutiveIssues = 0,
                               !.sinceStart = 0], frame)

StopMonitoring ==
    /\ issues.isMonitoring
    /\ issues' = [issues EXCEPT !.isMonitoring = FALSE]
    /\ notification' = NoNotification
    /\ UNCHANGED <<registry, subscriptions, monitor>>
    /\ IssuesFrame

\* the requestAnimationFrame callback: monitorLoop(), which returns at once
\* when monitoring has been stopped
AnimationFrame(frame) ==
    /\ issues.checks < MaxChecks
    /\ issues.isMonitoring
    /\ LoopBody(issues, frame)

\* reset()
ResetMonitor ==
    /\ Len(monitor.heap) < MaxObjects
    /\ issues' = [issues EXCEPT !.consecutiveIssues = 0, !.sinceStart = 0,
                                !.hasSample = FALSE]
    /\ monitor' = [monitor EXCEPT
                      !.heap = Append(@, [used |-> 0, total |-> 0, percentage |-> 0]),
                      !.currentMetrics = [fps |-> 0, renderTime |-> 0,
                                          memoryUsage |-> Len(monitor.heap) + 1]]
    /\ notification' = NoNotification
    /\ UNCHANGED <<registry, subscriptions>>
    /\ IssuesFrame

NextIssues ==
    \/ \E callback \in Handlers : OnPerformanceIssue(callback)
    \/ \E callback \in Range(registry.monitor) : RemovePerformanceCallback(callback)
    \/ \E frame \in FrameSamples : StartMonitoring(frame)
    \/ StopMonitoring
    \/ \E frame \in FrameSamples : AnimationFrame(frame)
    \/ \E memoryInfo \in MemorySamples : UpdateMemoryMetrics(memoryInfo)
    \/ ResetMonitor

SpecIssues == InitLOD /\ [][NextIssues]_vars

\* this step is a checkPerformanceIssues step
CheckStep == issues'.checks = issues.checks + 1

\* the number of times callback occurs in the sequence s
Invocations(s, callback) == Cardinality({i \in DOMAIN s : s[i] = callback})

\* a step with issues invokes every registered callback once, a step without
\* issues invokes none
CallbacksOncePerIssueStep ==
    IF issues'.found
    THEN /\ Range(notification'.invoked) = Range(registry.monitor)
         /\ \A callback \in Range(registry.monitor) :
               Invocations(notification'.invoked, callback) = 1
    ELSE notification'.invoked = <<>>

\* C27: after each checkPerformanceIssues step the counter is the number of
\* consecutive steps with issues up to this one, made since monitoring was
\* last started or reset (0 after a step without issues), and the callbacks
\* are invoked once each on a step with issues and not at all on another
C27_CounterSinceStart ==
    [][CheckStep => /\ issues'.consecutiveIssues = issues'.sinceStart
                    /\ CallbacksOncePerIssueStep]_vars

\* C27 as stated: the counter is the number of consecutive steps with issues
\* up to this one, whenever they were made
C27_CounterCountsAllSteps ==
    [][CheckStep => /\ issues'.consecutiveIssues = issues'.streak
                    /\ CallbacksOncePerIssueStep]_vars

\* C36: a checkPerformanceIssues step reports a low_fps issue only when the
\* window of fps samples holds at least one sample; the step of the first
\* frame after start or reset reports none
C36_LowFpsNeedsSample ==
    [][CheckStep => (LowFps(monitor') => issues'.hasSample)]_vars

\* C27 witness: a third consecutive step with issues has notified two callbacks
C27_Witness ==
    /\ issues.found
    /\ issues.consecutiveIssues = 3
    /\ Len(notification.invoked) = 2

-----------------------------------------------------------------------------
(* Loads in flight: in SpecInFlight the cache is cleared, keys are deleted *)
(* and assets are unloaded while the loads started by registerModel and    *)
(* updateModelLOD are pending                                              *)

\* a small model and one above half the capacity
InFlightSizes == {1, 3}

LoadingKeys == {f.key : f \in {g \in Suspended : g.pc = "loading"}}

InFlightFrame ==
    UNCHANGED <<calls, now, decision, severity, runs, pendingTransitions, notifyVars,
                monitor, system, display, lowering, issues, lodCalls, lastEval, ticks,
                debounce>>

\* modelCache.clear() at any moment
ClearInFlight ==
    /\ modelCache' = clear(Begin)
    /\ Removed(modelCache')
    /\ lastCall' = NoCall
    /\ interrupted' = interrupted \cup LoadingKeys
    /\ UNCHANGED lodManager
    /\ InFlightFrame

\* modelCache.delete(key) at any moment
DeleteInFlight(key) ==
    /\ modelCache' = delete(Begin, key)
    /\ Removed(modelCache')
    /\ lastCall' = NoCall
    /\ interrupted' = interrupted \cup (LoadingKeys \cap {key})
    /\ UNCHANGED lodManager
    /\ InFlightFrame

\* unloadModel(entityId) at any moment
UnloadInFlight(e) ==
    /\ lodManager' = unloadModel(BeginLod, e)
    /\ lastCall' = [ctx |-> NewCtx("unload", e), outcome |-> "resolved"]
    /\ interrupted' = interrupted \cup {key \in LoadingKeys : key[1] = e}
    /\ UNCHANGED <<modelCache, recency, insertOrder, evictedFrom>>
    /\ InFlightFrame

NextInFlight ==
    \/ \E e \in Entities, preload \in BOOLEAN :
          /\ TaskCanStart /\ lodCalls < MaxTimerCalls
          /\ RegisterModel(e, Qualities, preload, NewElement)
    \/ \E e \in Entities, cameraData \in TimerCameraData :
          /\ TaskCanStart /\ lodCalls < MaxTimerCalls
          /\ UpdateModelLOD(e, cameraData)
    \/ TaskCanStart /\ ClearInFlight
    \/ \E e \in Entities, quality \in Qualities :
          TaskCanStart /\ DeleteInFlight(CacheKey(e, quality))
    \/ \E e \in Entities : TaskCanStart /\ UnloadInFlight(e)
    \/ \E f \in Suspended, model \in InFlightSizes :
          TaskCanStart /\ LoaderResolve(f, model)
    \/ \E f \in Suspended : TaskCanStart /\ LoaderReject(f)
    \/ \E f \in Suspended : EnsureSpaceStep(f)
    \/ \E f \in Suspended : SetInsert(f)
    \/ \E f \in Suspended : SetReturn(f)

SpecInFlight == InitLOD /\ [][NextInFlight]_vars

\* the suspended call f has left its position in this step
Left(f) == CopiesIn(f, calls') < CopiesIn(f, calls)

\* C30: a pending load leaves its position only when its loader settles, a
\* set under way only by going on, and when set is done with a model of
\* acceptable size the model is stored under the key of the load: clear,
\* delete and unload cancel nothing
C30_InFlightLoadCompletes ==
    [][/\ \A f \in Suspended : (f.pc = "loading" /\ Left(f)) =>
             \/ \E g \in MovedTo : g.key = f.key /\ g.pc \in {"ensureSpace", "insert", "setDone"}
             \/ \E i \in DOMAIN modelCache'.emitted :
                   modelCache'.emitted[i] = [type |-> "error", key |-> f.key]
       /\ \A f \in Suspended : (f.pc \in {"ensureSpace", "insert"} /\ Left(f)) =>
             \E g \in MovedTo : /\ g.key = f.key /\ g.size = f.size
                                /\ g.pc \in {"ensureSpace", "insert", "setDone"}
       /\ \A g \in MovedTo : g.pc = "setDone" =>
             \/ TooLarge(modelCache, g.size)
             \/ /\ g.key \in DOMAIN modelCache'.cache
                /\ modelCache'.cache[g.key].size = g.size]_vars

\* C30 witness: the only load ever started was interrupted while pending,
\* and its model is stored under its key
C30_Witness ==
    \E key \in interrupted :
        /\ key \in DOMAIN modelCache.cache
        /\ modelCache.cacheMisses = 1
        /\ calls = EmptyBag

-----------------------------------------------------------------------------
(* An unload during a transition: in SpecStale an asset is unloaded while  *)
(* the loads of its transitions are pending.  Once that has happened the   *)
(* render loop requests nothing more, so that every transition that        *)
(* completes afterwards is one that was in flight when the unload ran      *)

NextStale ==
    \/ \E e \in Entities, preload \in BOOLEAN :
          /\ TaskCanStart /\ lodCalls < MaxTimerCalls
          /\ RegisterModel(e, Qualities, preload, NewElement)
    \/ \E e \in Entities, cameraData \in TimerCameraData :
          /\ TaskCanStart /\ lodCalls < MaxTimerCalls /\ interrupted = {}
          /\ UpdateModelLOD(e, cameraData)
    \/ \E e \in Entities : TaskCanStart /\ UnloadInFlight(e)
    \/ \E f \in Suspended, model \in LodModelSizes :
          TaskCanStart /\ LoaderResolve(f, model)
    \/ \E f \in Suspended : TaskCanStart /\ LoaderReject(f)
    \/ \E f \in Suspended : EnsureSpaceStep(f)
    \/ \E f \in Suspended : SetInsert(f)
    \/ \E f \in Suspended : SetReturn(f)

SpecStale == InitLOD /\ [][NextStale]_vars

\* nothing is attached to the element of the asset
Detached(m, e) ==
    e \in DOMAIN m.activeModels => m.activeModels[e].element.mesh = "none"

\* C31: after an unloadModel that ran while transitions of the asset were in
\* flight, and with no transition requested since, the asset stays unloaded:
\* loaded flag false, current quality unset, nothing attached, also when the
\* transitions that were in flight complete
C31_UnloadedStaysUnloaded ==
    \A key \in interrupted :
        Unloaded(lodManager, key[1]) /\ Detached(lodManager, key[1])

\* C38: for every registered asset, in every reachable state, the loaded
\* flag is true exactly when the current quality is set, and the current
\* quality is unset, low, medium or high
C38_LoadedIffQualitySet ==
    \A e \in DOMAIN lodManager.activeModels :
        LET config == lodManager.activeModels[e]
        IN /\ config.isLoaded <=> config.currentQuality # "none"
           /\ config.currentQuality \in Qualities \cup {"none"}

\* an asset that was unloaded while a transition was in flight is loaded
\* again, at the quality of that transition
C38_Witness ==
    \E e \in DOMAIN lodManager.activeModels :
        /\ lodManager.activeModels[e].isLoaded
        /\ lodManager.activeModels[e].currentQuality \in Qualities
        /\ e \in {key[1] : key \in interrupted}

-----------------------------------------------------------------------------
(* The sampling loop and the frames: in SpecLoop the system is paused and  *)
(* resumed between frames, and each frame runs the callbacks that          *)
(* requestAnimationFrame has queued for it.  Callbacks requested during a  *)
(* frame run in the next one                                               *)

\* ModelOptimizationSystem.resume(): startMonitoring(), which returns at once
\* if already monitoring; else monitorLoop() runs and requests a callback
SystemResume(frame) ==
    /\ issues.checks < MaxChecks
    /\ issues.running = 0
    /\ ~issues.isMonitoring
    /\ LoopBody([issues EXCEPT !.isMonitoring = TRUE, !.consecutiveIssues = 0,
                               !.sinceStart = 0, !.scheduled = @ + 1], frame)

\* ModelOptimizationSystem.pause(): stopMonitoring(); the callback requested
\* by the loop stays queued
SystemPause ==
    /\ issues.running = 0
    /\ StopMonitoring

\* the browser starts a frame: the callbacks queued so far are the frame's
NextFrame ==
    /\ issues.running = 0
    /\ issues.scheduled > 0
    /\ issues' = [issues EXCEPT !.running = issues.scheduled, !.scheduled = 0,
                                !.inFrame = 0]
    /\ notification' = NoNotification
    /\ UNCHANGED <<registry, subscriptions, monitor>>
    /\ IssuesFrame

\* one callback of the frame: () => this.monitorLoop()
MonitorLoopCallback(frame) ==
    /\ issues.running > 0
    /\ IF issues.isMonitoring
       THEN /\ issues.checks < MaxChecks
            /\ LoopBody([issues EXCEPT !.running = @ - 1, !.scheduled = @ + 1,
                                       !.inFrame = @ + 1], frame)
       ELSE /\ issues' = [issues EXCEPT !.running = @ - 1]
            /\ notification' = NoNotification
            /\ UNCHANGED <<registry, subscriptions, monitor>>
            /\ IssuesFrame

NextLoop ==
    \/ \E callback \in Handlers : OnPerformanceIssue(callback)
    \/ \E frame \in FrameSamples : SystemResume(frame)
    \/ SystemPause
    \/ NextFrame
    \/ \E frame \in FrameSamples : MonitorLoopCallback(frame)

SpecLoop == InitLOD /\ [][NextLoop]_vars

\* C32: at most one callback of the sampling loop is queued or running at any
\* time, whatever the sequence of pause and resume, and the callbacks of one
\* frame make at most one checkPerformanceIssues step (one fps sample)
C32_OneLoopPerFrame ==
    /\ issues.scheduled + issues.running <= 1
    /\ issues.inFrame <= 1

-----------------------------------------------------------------------------
(* Progress of the render loop: in SpecEventually an asset is registered   *)
(* with some sources, the loader succeeds for every source, and after the  *)
(* first updateModelLOD the render loop goes on calling it on every tick   *)
(* with a viewpoint that asks for the same quality                         *)

\* the modelPaths of a registration: all tiers, no low tier, the low tier only
SourceSets == {Qualities, {"medium", "high"}, {"low"}}

\* the quality that updateModelLOD determines for the asset and the camera
RequestedQuality(m, e, cameraData) ==
    determineQuality(DistanceOf(cameraData, m.activeModels[e].element),
                     m.activeModels[e].lodDistances)

\* updateModelLOD(entityId, cameraData) on a later tick of the render loop
UpdateModelLODAgain(e, cameraData) ==
    /\ e \in DOMAIN lastEval
    /\ RequestedQuality(lodManager, e, cameraData)
          = RequestedQuality(lodManager, e, lastEval[e])
    /\ lastEval' = MapSet(lastEval, e, cameraData)
    /\ LET r == updateModelLOD(World(Begin, BeginLod), NewCtx("update", e), cameraData)
       IN Outcome(r, NoFrame) /\ Scheduled(r)
    /\ UNCHANGED <<now, decision, pureVars, lodCalls, ticks>>

RenderLoopTick ==
    \E e \in Entities, cameraData \in CameraData :
        TaskCanStart /\ UpdateModelLODAgain(e, cameraData)

LoaderSucceeds ==
    \E f \in Suspended, model \in LodModelSizes : TaskCanStart /\ LoaderResolve(f, model)

NextEventually ==
    \/ \E e \in Entities, modelPaths \in SourceSets, preload \in BOOLEAN :
          TaskCanStart /\ RegisterModel(e, modelPaths, preload, NewElement)
    \/ \E e \in Entities, cameraData \in CameraData :
          TaskCanStart /\ e \notin DOMAIN lastEval /\ UpdateModelLOD(e, cameraData)
    \/ RenderLoopTick
    \/ LoaderSucceeds
    \/ \E f \in Suspended : EnsureSpaceStep(f)
    \/ \E f \in Suspended : SetInsert(f)
    \/ \E f \in Suspended : SetReturn(f)

\* the render loop keeps ticking, a load that is pending ends, and the
\* continuations that are ready run
SpecEventually ==
    /\ InitLOD
    /\ [][NextEventually]_vars
    /\ WF_vars(RenderLoopTick)
    /\ WF_vars(LoaderSucceeds)
    /\ WF_vars(\E f \in Suspended : EnsureSpaceStep(f))
    /\ WF_vars(\E f \in Suspended : SetInsert(f))
    /\ WF_vars(\E f \in Suspended : SetReturn(f))

\* the asset is loaded at a quality it has a source for
LoadedFromSource(e) ==
    /\ e \in DOMAIN lodManager.activeModels
    /\ lodManager.activeModels[e].isLoaded
    /\ lodManager.activeModels[e].currentQuality \in lodManager.activeModels[e].paths

\* C33: an asset registered with at least one source, whose loads all
\* succeed, is eventually loaded at a quality it has a source for once
\* updateModelLOD has been called for it, whatever quality its distance asks for
C33_EventuallyLoaded ==
    \A e \in Entities : (e \in DOMAIN lastEval) ~> LoadedFromSource(e)

\* the same for the assets that have a source for the quality asked for
EventuallyLoadedIfSourced ==
    \A e \in Entities :
        (/\ e \in DOMAIN lastEval
         /\ RequestedQuality(lodManager, e, lastEval[e]) \in lodManager.activeModels[e].paths)
        ~> LoadedFromSource(e)

-----------------------------------------------------------------------------
(* The debounce timer under a render loop that does not stop: in           *)
(* SpecStarve a manager with autoOptimize has one asset, whose             *)
(* updateModelLOD is called again and again while time passes.  Time is    *)
(* measured from the present: now stays 0, and when time passes the        *)
(* deadline of the timer and the timestamps of the past are moved back.    *)
(* A timestamp older than the age it is compared with stays at that age.   *)
(* The runs end when the first optimization pass has started; until then  *)
(* each asset is loaded at one quality and the cache has room for it       *)

\* a timestamp after dt has passed, as seen from the new present
Past(timestamp, dt, horizon) ==
    IF timestamp - dt < now - horizon THEN now - horizon ELSE timestamp - dt

\* dt passes without any callback: no timer is due before its end
Elapse(dt) ==
    /\ lodManager.optimizationTimeout.pending =>
          now + dt <= lodManager.optimizationTimeout.deadline
    /\ lodManager' =
          [lodManager EXCEPT
              !.optimizationTimeout = IF @.pending THEN [@ EXCEPT !.deadline = @ - dt] ELSE @,
              !.activeModels = [e \in DOMAIN @ |->
                                  [@[e] EXCEPT !.lastUpdate = Past(@, dt, MaxIdleTime + 1)]]]
    /\ modelCache' =
          [modelCache EXCEPT
              !.cache = [key \in DOMAIN @ |->
                            [@[key] EXCEPT !.lastAccess = Past(@, dt, MaxAge + 1)]],
              !.usage = [key \in DOMAIN @ |->
                            [@[key] EXCEPT !.lastAccess = Past(@, dt, MaxAge + 1)]]]
    /\ lastCall' = NoCall
    /\ UNCHANGED <<calls, recency, insertOrder, evictedFrom, now, decision, otherVars,
                   lodCalls, lastEval, ticks, debounce>>

\* the tick of the render loop: updateModelLOD(entityId, cameraData) with a
\* viewpoint that asks for the quality the last one asked for
FrameUpdate(e, cameraData) ==
    /\ e \in DOMAIN lodManager.activeModels
    /\ e \in DOMAIN lastEval =>
          RequestedQuality(lodManager, e, cameraData)
             = RequestedQuality(lodManager, e, lastEval[e])
    /\ lastEval' = MapSet(lastEval, e, cameraData)
    /\ LET r == updateModelLOD(World(Begin, BeginLod), NewCtx("update", e), cameraData)
       IN Outcome(r, NoFrame)
    /\ UNCHANGED <<now, decision, pureVars, lodCalls, ticks, debounce>>

NoRunYet == lodManager.stats.optimizationRuns = 0

TimePasses == \E dt \in TimeSteps : NoRunYet /\ TaskCanStart /\ Elapse(dt)

FrameTick ==
    \E e \in Entities, cameraData \in TimerCameraData :
        NoRunYet /\ TaskCanStart /\ FrameUpdate(e, cameraData)

TimerDue == \E metrics \in Metrics : NoRunYet /\ TaskCanStart /\ TimerFire(metrics)

NextStarve ==
    \/ \E e \in Entities :
          /\ NoRunYet /\ TaskCanStart /\ lodCalls < MaxTimerCalls
          /\ RegisterModel(e, Qualities, FALSE, NewElement)
    \/ FrameTick
    \/ TimePasses
    \/ TimerDue
    \/ NoRunYet /\ LoaderSucceeds
    \/ \E f \in Suspended : NoRunYet /\ SetInsert(f)
    \/ \E f \in Suspended : NoRunYet /\ SetReturn(f)

\* time passes, the render loop keeps ticking, a timer that is due fires, a
\* load that is pending ends and the continuations that are ready run
SpecStarve ==
    /\ InitTimer
    /\ [][NextStarve]_vars
    /\ WF_vars(TimePasses)
    /\ WF_vars(FrameTick)
    /\ WF_vars(TimerDue)
    /\ WF_vars(NoRunYet /\ LoaderSucceeds)
    /\ WF_vars(\E f \in Suspended : NoRunYet /\ SetInsert(f))
    /\ WF_vars(\E f \in Suspended : NoRunYet /\ SetReturn(f))

\* C37: with automatic optimization, once updateModelLOD has been called for
\* a registered asset an optimization pass eventually starts, also when
\* further calls keep arriving less than the debounce delay apart
C37_RunEventuallyStarts ==
    (\E e \in Entities : e \in DOMAIN lastEval) ~> (lodManager.stats.optimizationRuns > 0)

-----------------------------------------------------------------------------
(* The severity of a low frame rate on its own: SpecSeverity applies       *)
(* calculateFPSSeverity to two averaged frame rates under one target       *)

InitSeverity ==
    /\ modelCache = InitCache
    /\ calls = EmptyBag
    /\ now = 0
    /\ decision = NoDecision
    /\ lodManager = InitLODManager(TRUE)
    /\ InitHistory
    /\ severity \in SeverityArguments
    /\ runs = 0
    /\ pendingTransitions = <<>>
    /\ InitNotify
    /\ monitor = InitMonitor
    /\ system = InitSystem
    /\ InitLater

CalculateFPSSeverity ==
    /\ severity.result[1] = "none"
    /\ severity' = [severity EXCEPT
          !.result = <<calculateFPSSeverity(severity.fps[1], severity.target),
                       calculateFPSSeverity(severity.fps[2], severity.target)>>]
    /\ UNCHANGED <<modelCache, calls, recency, insertOrder, evictedFrom, now, decision,
                   lodVars, runs, pendingTransitions, notifyVars, monitor, system, laterVars>>

NextSeverityArguments ==
    /\ severity.result[1] # "none"
    /\ severity' \in SeverityArguments
    /\ UNCHANGED <<modelCache, calls, recency, insertOrder, evictedFrom, now, decision,
                   lodVars, runs, pendingTransitions, notifyVars, monitor, system, laterVars>>

NextSeverity == CalculateFPSSeverity \/ NextSeverityArguments

SpecSeverity == InitSeverity /\ [][NextSeverity]_vars

\* C11: under one target, of two averaged frame rates the lower one gets a
\* severity at least as high, in the order low < medium < high < critical
C11_SeverityMonotone ==
    (severity.result[1] # "none" /\ severity.fps[1] <= severity.fps[2]) =>
        SeverityRank(severity.result[1]) >= SeverityRank(severity.result[2])

C11_Witness ==
    /\ severity.fps[1] < severity.fps[2]
    /\ severity.result[1] = "critical"
    /\ severity.result[2] = "medium"

-----------------------------------------------------------------------------
(* The decision rule on its own: SpecDecide applies determineQuality to *)
(* every distance and every valid threshold triple                       *)

InitDecide ==
    /\ modelCache = InitCache
    /\ calls = EmptyBag
    /\ now = 0
    /\ lodManager = InitLODManager(TRUE)
    /\ InitHistory
    /\ InitOther
    /\ decision \in {[distance |-> d, lodDistances |-> t, quality |-> "none"] :
                        d \in Distances, t \in ValidLodDistances}

DetermineQuality ==
    /\ decision.quality = "none"
    /\ decision' = [decision EXCEPT
          !.quality = determineQuality(decision.distance, decision.lodDistances)]
    /\ UNCHANGED <<modelCache, calls, recency, insertOrder, evictedFrom, now, lodVars, otherVars>>

NextArguments ==
    /\ decision.quality # "none"
    /\ decision' \in {[distance |-> d, lodDistances |-> t, quality |-> "none"] :
                         d \in Distances, t \in ValidLodDistances}
    /\ UNCHANGED <<modelCache, calls, recency, insertOrder, evictedFrom, now, lodVars, otherVars>>

NextDecide == DetermineQuality \/ NextArguments

SpecDecide == InitDecide /\ [][NextDecide]_vars

\* C8: with near < medium < far the decision is high if d <= near, medium if
\* near < d <= medium and low otherwise, so a distance equal to a threshold
\* gives the higher quality
C8_DecisionRule ==
    decision.quality # "none" =>
        LET d == decision.distance
            t == decision.lodDistances
        IN /\ (decision.quality = "high") = (d <= t.near)
           /\ (decision.quality = "medium") = (t.near < d /\ d <= t.medium)
           /\ (decision.quality = "low") = (d > t.medium)
           /\ (d = t.near => decision.quality = "high")
           /\ (d = t.medium => decision.quality = "medium")

\* C8 witness: the rule was applied to a distance equal to the medium threshold
C8_Witness ==
    /\ decision.quality = "medium"
    /\ decision.distance = decision.lodDistances.medium

-----------------------------------------------------------------------------
(* Claims about the cache, checked under Spec *)

\* C1: two ModelCache.get calls for the same key that overlap in time invoke
\* the loader once: no two loads of one key are pending at the same time
C1_LoadsDeduplicated ==
    \A f \in Suspended : f.pc = "loading" =>
        /\ CopiesIn(f, calls) = 1
        /\ \A g \in Suspended : (g.pc = "loading" /\ g.key = f.key) => g = f

\* C2: the tracked currentSize equals the sum of the sizes of the stored entries
C2_SizeAccounting ==
    modelCache.currentSize = SumSizes(modelCache.cache, DOMAIN modelCache.cache)

\* C3: the number of stored entries is at most maxEntries and currentSize is
\* at most maxSize, in every reachable state
C3_WithinBudget ==
    /\ Cardinality(DOMAIN modelCache.cache) <= modelCache.config.maxEntries
    /\ modelCache.currentSize <= modelCache.config.maxSize

(* The periodic maintenance: in SpecMaintain the requests come one after   *)
(* the other, time passes between them and at any moment the cleanup timer *)
(* calls performMaintenance                                                *)

MaintenanceSteps == {1, MaxAge}

\* the setInterval callback of startCleanupTimer
PerformMaintenance ==
    /\ modelCache' = performMaintenance(Begin, now)
    /\ Removed(modelCache')
    /\ lastCall' = [ctx |-> NewCtx("maintenance", "none"), outcome |-> "resolved"]
    /\ UNCHANGED <<calls, now, decision, otherVars, lodManager, lodCalls, lastEval, ticks,
                   debounce>>

NextMaintain ==
    \/ \E key \in CacheKeys : calls = EmptyBag /\ CacheGet(key)
    \/ \E f \in Suspended, model \in ModelSizes : LoaderResolve(f, model)
    \/ \E f \in Suspended : LoaderReject(f)
    \/ \E f \in Suspended : EnsureSpaceStep(f)
    \/ \E f \in Suspended : SetInsert(f)
    \/ \E f \in Suspended : SetReturn(f)
    \/ \E dt \in MaintenanceSteps : Advance(dt)
    \/ PerformMaintenance

SpecMaintain == Init /\ [][NextMaintain]_vars

\* the entries performMaintenance considers stale
Stale(c) == {key \in DOMAIN c.cache : /\ now - c.cache[key].lastAccess > MaxAge
                                      /\ c.cache[key].accessCount = 1}

\* C29: performMaintenance removes the entries last accessed more than
\* maxAge ago whose access count is 1, and at most one entry more: the least
\* recently used of the rest, and only if currentSize after the first step
\* is above 80% of maxSize; the entries that stay are unchanged
C29_Maintenance ==
    [][lastCall'.ctx.op = "maintenance" =>
          LET stale == Stale(modelCache)
              removed == DOMAIN modelCache.cache \ DOMAIN modelCache'.cache
              further == removed \ stale
              sizeAfter == modelCache.currentSize - SumSizes(modelCache.cache, stale)
          IN /\ stale \subseteq removed
             /\ Cardinality(further) <= 1
             /\ further # {} =>
                   /\ 10 * sizeAfter > 8 * modelCache.config.maxSize
                   /\ further = {Oldest(DOMAIN modelCache.cache \ stale)}
             /\ \A key \in DOMAIN modelCache'.cache :
                   /\ key \in DOMAIN modelCache.cache
                   /\ modelCache'.cache[key] = modelCache.cache[key]
                   /\ modelCache'.usage[key] = modelCache.usage[key]]_vars

\* C29 witness: a maintenance run has removed a stale entry and evicted
\* nothing else, and an entry accessed twice long ago has stayed
C29_Witness ==
    /\ lastCall.ctx.op = "maintenance"
    /\ ManualEvictions(modelCache) # {}
    /\ LruEvictions(modelCache) = {}
    /\ \E key \in DOMAIN modelCache.cache :
          /\ modelCache.cache[key].accessCount > 1
          /\ now - modelCache.cache[key].lastAccess > MaxAge

\* both budget constraints leave room for an entry of the given size
HasRoom(c, size) ==
    /\ c.currentSize + size <= c.config.maxSize
    /\ Cardinality(DOMAIN c.cache) < c.config.maxEntries

C4_LruEvictsOldest ==
    [][\A key \in LruEvictions(modelCache') :
          key = Oldest(DOMAIN modelCache'.cache \cup {key})]_vars

\* C4 witness: an entry was evicted for space although an entry inserted before
\* it is still stored: that one was accessed again in between
C4_Witness ==
    \E key \in LruEvictions(modelCache) :
        \E i, j \in DOMAIN evictedFrom :
            /\ i < j
            /\ evictedFrom[j] = key
            /\ evictedFrom[i] \in DOMAIN modelCache.cache
            /\ modelCache.cache[evictedFrom[i]].accessCount > 1

====
